---- MODULE Spec2Model ----
(***************************************************************************)
(* The on-ledger problem / solution / bounty registry of                   *)
(* sources/ProblemRegistry.move (module defix::ProblemRegistry).           *)
(*                                                                         *)
(* Global storage holds at most one Registry resource per address          *)
(* (exists<Registry>(a) is  a \in DOMAIN registry) and one AptosCoin        *)
(* balance per address.  Every entry function is one transaction: it       *)
(* either executes to the end, or aborts and the writes it made are        *)
(* discarded by the Move VM.  Each entry function is an operator from the  *)
(* storage before the transaction and its arguments to the transaction's   *)
(* status and the storage after it; one action per entry function applies  *)
(* it for some signer and some arguments.                                  *)
(***************************************************************************)
EXTENDS Integers, Sequences, FiniteSets, TLC

VARIABLES
    registry,       \* address -> Registry, defined where exists<Registry>(address)
    balance,        \* address -> AptosCoin balance in octas
    localStorage,   \* the browser's store of utils/store.ts: problems and solutions
    form,           \* ProblemForm: the submission in progress
    detail,         \* ProblemDetail: the add-solution in progress
    upload,         \* utils/ipfs.ts: the call of uploadFileToIPFS in progress
    picker,         \* MapPicker: the address lookup in progress
    search          \* LocationSearch: query, debounce timer, requests

\* The state of the web front end, which no transaction touches.
widgets == <<upload, picker, search>>
frontend == <<localStorage, form, detail, upload, picker, search>>

vars == <<registry, balance, localStorage, form, detail, upload, picker, search>>

(***************************************************************************)
(* Bounds of the model and the input sets the transactions draw from.      *)
(***************************************************************************)
\* Problems + solutions + votes stored in all registries together.
MaxOps == 4

Addresses == {"A", "B", "C"}
Cids == {"Qm111", "Qm222"}
Lats == {"37.77"}
Lngs == {"-122.42"}
Bounties == {1, 10000000}
\* The largest u64.  The word is modelled 3 bits wide, so that the checked
\* additions of the module (id + 1, length + 1, votes + 1) can reach it.
MAX_U64 == 7

\* problem_id and solution_id arguments: every id a Problem or Solution can get.
Ids == 1..MaxOps

(***************************************************************************)
(* Transaction statuses.  The module's own aborts carry the code of the    *)
(* assert!/abort that raised them; the other failures come from the VM     *)
(* (borrow_global_mut of a missing resource) and from the framework        *)
(* (table::borrow_mut of a missing key, table::add of a present key,       *)
(* coin::transfer with too small a balance), and a checked u64 addition    *)
(* that overflows aborts the transaction with an arithmetic error.         *)
(***************************************************************************)
ARITHMETIC_ERROR == "ARITHMETIC_ERROR"
Executed == "Executed"
MISSING_DATA == "MISSING_DATA"
TABLE_ENOT_FOUND == "table::ENOT_FOUND"
TABLE_EALREADY_EXISTS == "table::EALREADY_EXISTS"
EINSUFFICIENT_BALANCE == "coin::EINSUFFICIENT_BALANCE"

\* The outcome of a transaction: its status and the storage it leaves.
Outcome(status, reg, bal) == [status |-> status, registry |-> reg, balance |-> bal]

(***************************************************************************)
(* Framework operations the module calls.                                  *)
(***************************************************************************)
\* option::none<u64>() and option::some<u64>(x): a vector of 0 or 1 elements.
option_none == << >>
option_some(x) == <<x>>

\* table::new: a table with no key.
table_new == << >>

\* coin::transfer<AptosCoin>(from, to, amount) on the balances.
coin_can_transfer(bal, from, amount) == bal[from] >= amount
coin_transfer(bal, from, to, amount) ==
    IF from = to THEN bal
    ELSE [bal EXCEPT ![from] = @ - amount, ![to] = @ + amount]

\* ensure_registry with the counter of a new Registry starting at 0.
ensure_registry_from0(reg, account) ==
    IF account \notin DOMAIN reg
    THEN reg @@ (account :> [next_problem_id |-> 0, problems |-> table_new])
    ELSE reg

\* ensure_registry that publishes a fresh Registry on every call.
ensure_registry_always(reg, account) ==
    [a \in DOMAIN reg \cup {account} |->
        IF a = account THEN [next_problem_id |-> 1, problems |-> table_new]
        ELSE reg[a]]

(***************************************************************************)
(* ensure_registry                                                         *)
(***************************************************************************)
ensure_registry(reg, account) ==
    IF account \notin DOMAIN reg
    THEN reg @@ (account :> [next_problem_id |-> 1, problems |-> table_new])
    ELSE reg

\* create_problem that stores the Problem with open = false.
create_problem_closed(reg, bal, account, cid, lat, lng, bounty_octas) ==
    LET reg1 == ensure_registry(reg, account)
        addr == account
        id   == reg1[addr].next_problem_id
        p    == [id |-> id, owner |-> addr, cid |-> cid, lat |-> lat, lng |-> lng,
                 bounty_octas |-> bounty_octas, open |-> FALSE,
                 solutions |-> << >>, chosen |-> option_none]
    IN  IF id + 1 > MAX_U64 THEN Outcome(ARITHMETIC_ERROR, reg, bal)
        ELSE IF id \in DOMAIN reg1[addr].problems
        THEN Outcome(TABLE_EALREADY_EXISTS, reg, bal)
        ELSE Outcome(Executed,
                     [reg1 EXCEPT ![addr] =
                         [next_problem_id |-> id + 1,
                          problems |-> reg1[addr].problems @@ (id :> p)]],
                     bal)

\* create_problem that does not increment next_problem_id.
create_problem_noinc(reg, bal, account, cid, lat, lng, bounty_octas) ==
    LET reg1 == ensure_registry(reg, account)
        addr == account
        id   == reg1[addr].next_problem_id
        p    == [id |-> id, owner |-> addr, cid |-> cid, lat |-> lat, lng |-> lng,
                 bounty_octas |-> bounty_octas, open |-> TRUE,
                 solutions |-> << >>, chosen |-> option_none]
    IN  IF id + 1 > MAX_U64 THEN Outcome(ARITHMETIC_ERROR, reg, bal)
        ELSE IF id \in DOMAIN reg1[addr].problems
        THEN Outcome(TABLE_EALREADY_EXISTS, reg, bal)
        ELSE Outcome(Executed,
                     [reg1 EXCEPT ![addr] =
                         [next_problem_id |-> id,
                          problems |-> reg1[addr].problems @@ (id :> p)]],
                     bal)

\* create_problem that takes the bounty out of the creator's balance (escrow).
create_problem_escrow(reg, bal, account, cid, lat, lng, bounty_octas) ==
    LET reg1 == ensure_registry(reg, account)
        addr == account
        id   == reg1[addr].next_problem_id
        p    == [id |-> id, owner |-> addr, cid |-> cid, lat |-> lat, lng |-> lng,
                 bounty_octas |-> bounty_octas, open |-> TRUE,
                 solutions |-> << >>, chosen |-> option_none]
    IN  IF id + 1 > MAX_U64 THEN Outcome(ARITHMETIC_ERROR, reg, bal)
        ELSE IF id \in DOMAIN reg1[addr].problems
        THEN Outcome(TABLE_EALREADY_EXISTS, reg, bal)
        ELSE IF ~coin_can_transfer(bal, addr, bounty_octas)
        THEN Outcome(EINSUFFICIENT_BALANCE, reg, bal)
        ELSE Outcome(Executed,
                     [reg1 EXCEPT ![addr] =
                         [next_problem_id |-> id + 1,
                          problems |-> reg1[addr].problems @@ (id :> p)]],
                     [bal EXCEPT ![addr] = @ - bounty_octas])

\* create_problem whose increment of next_problem_id wraps around instead of
\* aborting.
create_problem_wrapping(reg, bal, account, cid, lat, lng, bounty_octas) ==
    LET reg1 == ensure_registry(reg, account)
        addr == account
        id   == reg1[addr].next_problem_id
        p    == [id |-> id, owner |-> addr, cid |-> cid, lat |-> lat, lng |-> lng,
                 bounty_octas |-> bounty_octas, open |-> TRUE,
                 solutions |-> << >>, chosen |-> option_none]
    IN  IF id \in DOMAIN reg1[addr].problems
        THEN Outcome(TABLE_EALREADY_EXISTS, reg, bal)
        ELSE Outcome(Executed,
                     [reg1 EXCEPT ![addr] =
                         [next_problem_id |-> (id + 1) % (MAX_U64 + 1),
                          problems |-> reg1[addr].problems @@ (id :> p)]],
                     bal)

\* create_problem that stores lat and lng the wrong way round.
create_problem_swap(reg, bal, account, cid, lat, lng, bounty_octas) ==
    LET reg1 == ensure_registry(reg, account)
        addr == account
        id   == reg1[addr].next_problem_id
        p    == [id |-> id, owner |-> addr, cid |-> cid, lat |-> lng, lng |-> lat,
                 bounty_octas |-> bounty_octas, open |-> TRUE,
                 solutions |-> << >>, chosen |-> option_none]
    IN  IF id + 1 > MAX_U64 THEN Outcome(ARITHMETIC_ERROR, reg, bal)
        ELSE IF id \in DOMAIN reg1[addr].problems
        THEN Outcome(TABLE_EALREADY_EXISTS, reg, bal)
        ELSE Outcome(Executed,
                     [reg1 EXCEPT ![addr] =
                         [next_problem_id |-> id + 1,
                          problems |-> reg1[addr].problems @@ (id :> p)]],
                     bal)

\* create_problem that numbers Problems from one counter shared by all
\* registries.
create_problem_globalid(reg, bal, account, cid, lat, lng, bounty_octas) ==
    LET reg1 == ensure_registry(reg, account)
        addr == account
        id   == 1 + Cardinality({<<a, k>> \in (DOMAIN reg1) \X (1..MAX_U64) :
                                    k \in DOMAIN reg1[a].problems})
        p    == [id |-> id, owner |-> addr, cid |-> cid, lat |-> lat, lng |-> lng,
                 bounty_octas |-> bounty_octas, open |-> TRUE,
                 solutions |-> << >>, chosen |-> option_none]
    IN  IF id + 1 > MAX_U64 THEN Outcome(ARITHMETIC_ERROR, reg, bal)
        ELSE IF id \in DOMAIN reg1[addr].problems
        THEN Outcome(TABLE_EALREADY_EXISTS, reg, bal)
        ELSE Outcome(Executed,
                     [reg1 EXCEPT ![addr] =
                         [next_problem_id |-> id + 1,
                          problems |-> reg1[addr].problems @@ (id :> p)]],
                     bal)

(***************************************************************************)
(* create_problem                                                          *)
(***************************************************************************)
create_problem(reg, bal, account, cid, lat, lng, bounty_octas) ==
    LET reg1 == ensure_registry(reg, account)
        addr == account
        id   == reg1[addr].next_problem_id
        p    == [id |-> id, owner |-> addr, cid |-> cid, lat |-> lat, lng |-> lng,
                 bounty_octas |-> bounty_octas, open |-> TRUE,
                 solutions |-> << >>, chosen |-> option_none]
    IN  IF id + 1 > MAX_U64 THEN Outcome(ARITHMETIC_ERROR, reg, bal)
        ELSE IF id \in DOMAIN reg1[addr].problems
        THEN Outcome(TABLE_EALREADY_EXISTS, reg, bal)
        ELSE Outcome(Executed,
                     [reg1 EXCEPT ![addr] =
                         [next_problem_id |-> id + 1,
                          problems |-> reg1[addr].problems @@ (id :> p)]],
                     bal)

\* add_solution without the check that the solver is the signer.
add_solution_nocheck(reg, bal, account, problem_id, solver_addr, cid) ==
    LET addr == account IN
    IF addr \notin DOMAIN reg THEN Outcome(MISSING_DATA, reg, bal)
    ELSE IF problem_id \notin DOMAIN reg[addr].problems
    THEN Outcome(TABLE_ENOT_FOUND, reg, bal)
    ELSE LET p == reg[addr].problems[problem_id] IN
    IF ~p.open THEN Outcome("abort 1", reg, bal)
    ELSE IF Len(p.solutions) + 1 > MAX_U64 THEN Outcome(ARITHMETIC_ERROR, reg, bal)
    ELSE LET new_id == Len(p.solutions) + 1
             sol    == [id |-> new_id, solver |-> solver_addr, cid |-> cid, votes |-> 0]
         IN  Outcome(Executed,
                     [reg EXCEPT ![addr].problems[problem_id].solutions = Append(@, sol)],
                     bal)

\* add_solution that numbers the new Solution from 0.
add_solution_zero_based(reg, bal, account, problem_id, solver_addr, cid) ==
    LET addr == account IN
    IF addr \notin DOMAIN reg THEN Outcome(MISSING_DATA, reg, bal)
    ELSE IF problem_id \notin DOMAIN reg[addr].problems
    THEN Outcome(TABLE_ENOT_FOUND, reg, bal)
    ELSE LET p == reg[addr].problems[problem_id] IN
    IF ~p.open THEN Outcome("abort 1", reg, bal)
    ELSE IF solver_addr # account THEN Outcome("abort 2", reg, bal)
    ELSE LET new_id == Len(p.solutions)
             sol    == [id |-> new_id, solver |-> solver_addr, cid |-> cid, votes |-> 0]
         IN  Outcome(Executed,
                     [reg EXCEPT ![addr].problems[problem_id].solutions = Append(@, sol)],
                     bal)

\* add_solution that publishes a Registry for a signer that has none, and
\* keeps it when the Problem is then not found.
add_solution_ensure(reg, bal, account, problem_id, solver_addr, cid) ==
    LET addr == account
        reg1 == ensure_registry(reg, account)
    IN
    IF problem_id \notin DOMAIN reg1[addr].problems
    THEN Outcome(TABLE_ENOT_FOUND, reg1, bal)
    ELSE LET p == reg1[addr].problems[problem_id] IN
    IF ~p.open THEN Outcome("abort 1", reg, bal)
    ELSE IF solver_addr # account THEN Outcome("abort 2", reg, bal)
    ELSE IF Len(p.solutions) + 1 > MAX_U64 THEN Outcome(ARITHMETIC_ERROR, reg, bal)
    ELSE LET new_id == Len(p.solutions) + 1
             sol    == [id |-> new_id, solver |-> solver_addr, cid |-> cid, votes |-> 0]
         IN  Outcome(Executed,
                     [reg1 EXCEPT ![addr].problems[problem_id].solutions = Append(@, sol)],
                     bal)

\* add_solution that also stores the Solution's cid as the Problem's cid.
add_solution_overwrite(reg, bal, account, problem_id, solver_addr, cid) ==
    LET addr == account IN
    IF addr \notin DOMAIN reg THEN Outcome(MISSING_DATA, reg, bal)
    ELSE IF problem_id \notin DOMAIN reg[addr].problems
    THEN Outcome(TABLE_ENOT_FOUND, reg, bal)
    ELSE LET p == reg[addr].problems[problem_id] IN
    IF ~p.open THEN Outcome("abort 1", reg, bal)
    ELSE IF solver_addr # account THEN Outcome("abort 2", reg, bal)
    ELSE IF Len(p.solutions) + 1 > MAX_U64 THEN Outcome(ARITHMETIC_ERROR, reg, bal)
    ELSE LET new_id == Len(p.solutions) + 1
             sol    == [id |-> new_id, solver |-> solver_addr, cid |-> cid, votes |-> 0]
         IN  Outcome(Executed,
                     [reg EXCEPT ![addr].problems[problem_id].solutions = Append(@, sol),
                                 ![addr].problems[problem_id].cid = cid],
                     bal)

\* add_solution that numbers the new Solution one above the FIRST Solution's
\* id and puts it in front.
add_solution_prepend(reg, bal, account, problem_id, solver_addr, cid) ==
    LET addr == account IN
    IF addr \notin DOMAIN reg THEN Outcome(MISSING_DATA, reg, bal)
    ELSE IF problem_id \notin DOMAIN reg[addr].problems
    THEN Outcome(TABLE_ENOT_FOUND, reg, bal)
    ELSE LET p == reg[addr].problems[problem_id] IN
    IF ~p.open THEN Outcome("abort 1", reg, bal)
    ELSE IF solver_addr # account THEN Outcome("abort 2", reg, bal)
    ELSE IF Len(p.solutions) + 1 > MAX_U64 THEN Outcome(ARITHMETIC_ERROR, reg, bal)
    ELSE LET new_id == Len(p.solutions) + 1
             sol    == [id |-> new_id, solver |-> solver_addr, cid |-> cid, votes |-> 0]
         IN  Outcome(Executed,
                     [reg EXCEPT ![addr].problems[problem_id].solutions = <<sol>> \o @],
                     bal)

(***************************************************************************)
(* add_solution                                                            *)
(***************************************************************************)
add_solution(reg, bal, account, problem_id, solver_addr, cid) ==
    LET addr == account IN
    IF addr \notin DOMAIN reg THEN Outcome(MISSING_DATA, reg, bal)
    ELSE IF problem_id \notin DOMAIN reg[addr].problems
    THEN Outcome(TABLE_ENOT_FOUND, reg, bal)
    ELSE LET p == reg[addr].problems[problem_id] IN
    IF ~p.open THEN Outcome("abort 1", reg, bal)
    ELSE IF solver_addr # account THEN Outcome("abort 2", reg, bal)
    ELSE IF Len(p.solutions) + 1 > MAX_U64 THEN Outcome(ARITHMETIC_ERROR, reg, bal)
    ELSE LET new_id == Len(p.solutions) + 1
             sol    == [id |-> new_id, solver |-> solver_addr, cid |-> cid, votes |-> 0]
         IN  Outcome(Executed,
                     [reg EXCEPT ![addr].problems[problem_id].solutions = Append(@, sol)],
                     bal)

(***************************************************************************)
(* The scan both vote_solution and release_reward make: the index of the   *)
(* first Solution at or after position i whose id is solution_id, or 0.    *)
(***************************************************************************)
RECURSIVE find_solution(_, _, _)
find_solution(solutions, solution_id, i) ==
    IF i > Len(solutions) THEN 0
    ELSE IF solutions[i].id = solution_id THEN i
    ELSE find_solution(solutions, solution_id, i + 1)

\* vote_solution that, finding no Solution with the id, votes for the last one.
vote_solution_lastfallback(reg, bal, voter, problem_id, solution_id) ==
    LET addr == voter IN
    IF addr \notin DOMAIN reg THEN Outcome(MISSING_DATA, reg, bal)
    ELSE IF problem_id \notin DOMAIN reg[addr].problems
    THEN Outcome(TABLE_ENOT_FOUND, reg, bal)
    ELSE LET p == reg[addr].problems[problem_id] IN
    IF ~p.open THEN Outcome("abort 3", reg, bal)
    ELSE LET f == find_solution(p.solutions, solution_id, 1)
             i == IF f = 0 THEN Len(p.solutions) ELSE f
         IN
    IF i = 0 THEN Outcome("abort 4", reg, bal)
    ELSE IF p.solutions[i].votes + 1 > MAX_U64 THEN Outcome(ARITHMETIC_ERROR, reg, bal)
    ELSE Outcome(Executed,
                 [reg EXCEPT ![addr].problems[problem_id].solutions[i].votes = @ + 1],
                 bal)

\* vote_solution that accepts one vote per Solution only.
vote_solution_once(reg, bal, voter, problem_id, solution_id) ==
    LET addr == voter IN
    IF addr \notin DOMAIN reg THEN Outcome(MISSING_DATA, reg, bal)
    ELSE IF problem_id \notin DOMAIN reg[addr].problems
    THEN Outcome(TABLE_ENOT_FOUND, reg, bal)
    ELSE LET p == reg[addr].problems[problem_id] IN
    IF ~p.open THEN Outcome("abort 3", reg, bal)
    ELSE LET i == find_solution(p.solutions, solution_id, 1) IN
    IF i = 0 THEN Outcome("abort 4", reg, bal)
    ELSE IF p.solutions[i].votes >= 1 THEN Outcome("abort 8", reg, bal)
    ELSE Outcome(Executed,
                 [reg EXCEPT ![addr].problems[problem_id].solutions[i].votes = @ + 1],
                 bal)

\* vote_solution that also records the voted Solution as the chosen one.
vote_solution_choose(reg, bal, voter, problem_id, solution_id) ==
    LET addr == voter IN
    IF addr \notin DOMAIN reg THEN Outcome(MISSING_DATA, reg, bal)
    ELSE IF problem_id \notin DOMAIN reg[addr].problems
    THEN Outcome(TABLE_ENOT_FOUND, reg, bal)
    ELSE LET p == reg[addr].problems[problem_id] IN
    IF ~p.open THEN Outcome("abort 3", reg, bal)
    ELSE LET i == find_solution(p.solutions, solution_id, 1) IN
    IF i = 0 THEN Outcome("abort 4", reg, bal)
    ELSE IF p.solutions[i].votes + 1 > MAX_U64 THEN Outcome(ARITHMETIC_ERROR, reg, bal)
    ELSE Outcome(Executed,
                 [reg EXCEPT ![addr].problems[problem_id].solutions[i].votes = @ + 1,
                             ![addr].problems[problem_id].chosen = option_some(solution_id)],
                 bal)

\* vote_solution that, when the voter's Registry has no such Problem, votes in
\* a Registry that has one.
vote_solution_anyreg(reg, bal, voter, problem_id, solution_id) ==
    LET holders == {a \in DOMAIN reg : problem_id \in DOMAIN reg[a].problems}
        addr == IF voter \in holders \/ holders = {} THEN voter
                ELSE CHOOSE a \in holders : TRUE
    IN
    IF addr \notin DOMAIN reg THEN Outcome(MISSING_DATA, reg, bal)
    ELSE IF problem_id \notin DOMAIN reg[addr].problems
    THEN Outcome(TABLE_ENOT_FOUND, reg, bal)
    ELSE LET p == reg[addr].problems[problem_id] IN
    IF ~p.open THEN Outcome("abort 3", reg, bal)
    ELSE LET i == find_solution(p.solutions, solution_id, 1) IN
    IF i = 0 THEN Outcome("abort 4", reg, bal)
    ELSE IF p.solutions[i].votes + 1 > MAX_U64 THEN Outcome(ARITHMETIC_ERROR, reg, bal)
    ELSE Outcome(Executed,
                 [reg EXCEPT ![addr].problems[problem_id].solutions[i].votes = @ + 1],
                 bal)

(***************************************************************************)
(* vote_solution                                                           *)
(***************************************************************************)
vote_solution(reg, bal, voter, problem_id, solution_id) ==
    LET addr == voter IN
    IF addr \notin DOMAIN reg THEN Outcome(MISSING_DATA, reg, bal)
    ELSE IF problem_id \notin DOMAIN reg[addr].problems
    THEN Outcome(TABLE_ENOT_FOUND, reg, bal)
    ELSE LET p == reg[addr].problems[problem_id] IN
    IF ~p.open THEN Outcome("abort 3", reg, bal)
    ELSE LET i == find_solution(p.solutions, solution_id, 1) IN
    IF i = 0 THEN Outcome("abort 4", reg, bal)
    ELSE IF p.solutions[i].votes + 1 > MAX_U64 THEN Outcome(ARITHMETIC_ERROR, reg, bal)
    ELSE Outcome(Executed,
                 [reg EXCEPT ![addr].problems[problem_id].solutions[i].votes = @ + 1],
                 bal)

\* release_reward that closes the Problem before the solver check and the
\* transfer, and keeps that write when it then fails.
release_reward_partial(reg, bal, owner, problem_id, solution_id) ==
    LET addr == owner IN
    IF addr \notin DOMAIN reg THEN Outcome(MISSING_DATA, reg, bal)
    ELSE IF problem_id \notin DOMAIN reg[addr].problems
    THEN Outcome(TABLE_ENOT_FOUND, reg, bal)
    ELSE LET p == reg[addr].problems[problem_id] IN
    IF p.owner # addr THEN Outcome("abort 5", reg, bal)
    ELSE IF ~p.open THEN Outcome("abort 6", reg, bal)
    ELSE LET i == find_solution(p.solutions, solution_id, 1)
             solver_found == IF i = 0 THEN addr ELSE p.solutions[i].solver
             closed == [reg EXCEPT ![addr].problems[problem_id].open = FALSE,
                                   ![addr].problems[problem_id].chosen =
                                       option_some(solution_id)]
         IN
    IF solver_found = addr THEN Outcome("abort 7", closed, bal)
    ELSE IF ~coin_can_transfer(bal, addr, p.bounty_octas)
    THEN Outcome(EINSUFFICIENT_BALANCE, closed, bal)
    ELSE Outcome(Executed, closed, coin_transfer(bal, addr, solver_found, p.bounty_octas))

\* release_reward that reports a missing Solution with vote_solution's code 4.
release_reward_code4(reg, bal, owner, problem_id, solution_id) ==
    LET addr == owner IN
    IF addr \notin DOMAIN reg THEN Outcome(MISSING_DATA, reg, bal)
    ELSE IF problem_id \notin DOMAIN reg[addr].problems
    THEN Outcome(TABLE_ENOT_FOUND, reg, bal)
    ELSE LET p == reg[addr].problems[problem_id] IN
    IF p.owner # addr THEN Outcome("abort 5", reg, bal)
    ELSE IF ~p.open THEN Outcome("abort 6", reg, bal)
    ELSE LET i == find_solution(p.solutions, solution_id, 1)
             solver_found == IF i = 0 THEN addr ELSE p.solutions[i].solver
         IN
    IF solver_found = addr THEN Outcome("abort 4", reg, bal)
    ELSE IF ~coin_can_transfer(bal, addr, p.bounty_octas)
    THEN Outcome(EINSUFFICIENT_BALANCE, reg, bal)
    ELSE Outcome(Executed,
                 [reg EXCEPT ![addr].problems[problem_id].open = FALSE,
                             ![addr].problems[problem_id].chosen = option_some(solution_id)],
                 coin_transfer(bal, addr, solver_found, p.bounty_octas))

\* release_reward that checks the owner's balance before it looks for the
\* Solution.
release_reward_balance_first(reg, bal, owner, problem_id, solution_id) ==
    LET addr == owner IN
    IF addr \notin DOMAIN reg THEN Outcome(MISSING_DATA, reg, bal)
    ELSE IF problem_id \notin DOMAIN reg[addr].problems
    THEN Outcome(TABLE_ENOT_FOUND, reg, bal)
    ELSE LET p == reg[addr].problems[problem_id] IN
    IF p.owner # addr THEN Outcome("abort 5", reg, bal)
    ELSE IF ~p.open THEN Outcome("abort 6", reg, bal)
    ELSE IF ~coin_can_transfer(bal, addr, p.bounty_octas)
    THEN Outcome(EINSUFFICIENT_BALANCE, reg, bal)
    ELSE LET i == find_solution(p.solutions, solution_id, 1)
             solver_found == IF i = 0 THEN addr ELSE p.solutions[i].solver
         IN
    IF solver_found = addr THEN Outcome("abort 7", reg, bal)
    ELSE Outcome(Executed,
                 [reg EXCEPT ![addr].problems[problem_id].open = FALSE,
                             ![addr].problems[problem_id].chosen = option_some(solution_id)],
                 coin_transfer(bal, addr, solver_found, p.bounty_octas))

\* release_reward that tells a found Solution from a missing one by the
\* position of the match, not by the solver's address.
release_reward_found_flag(reg, bal, owner, problem_id, solution_id) ==
    LET addr == owner IN
    IF addr \notin DOMAIN reg THEN Outcome(MISSING_DATA, reg, bal)
    ELSE IF problem_id \notin DOMAIN reg[addr].problems
    THEN Outcome(TABLE_ENOT_FOUND, reg, bal)
    ELSE LET p == reg[addr].problems[problem_id] IN
    IF p.owner # addr THEN Outcome("abort 5", reg, bal)
    ELSE IF ~p.open THEN Outcome("abort 6", reg, bal)
    ELSE LET i == find_solution(p.solutions, solution_id, 1)
             solver_found == IF i = 0 THEN addr ELSE p.solutions[i].solver
         IN
    IF i = 0 THEN Outcome("abort 7", reg, bal)
    ELSE IF ~coin_can_transfer(bal, addr, p.bounty_octas)
    THEN Outcome(EINSUFFICIENT_BALANCE, reg, bal)
    ELSE Outcome(Executed,
                 [reg EXCEPT ![addr].problems[problem_id].open = FALSE,
                             ![addr].problems[problem_id].chosen = option_some(solution_id)],
                 coin_transfer(bal, addr, solver_found, p.bounty_octas))

\* release_reward that, when the caller's Registry has no such Problem, looks
\* for it in a Registry that has one.
release_reward_anyreg(reg, bal, owner, problem_id, solution_id) ==
    LET holders == {a \in DOMAIN reg : problem_id \in DOMAIN reg[a].problems}
        addr == IF owner \in holders \/ holders = {} THEN owner
                ELSE CHOOSE a \in holders : TRUE
    IN
    IF addr \notin DOMAIN reg THEN Outcome(MISSING_DATA, reg, bal)
    ELSE IF problem_id \notin DOMAIN reg[addr].problems
    THEN Outcome(TABLE_ENOT_FOUND, reg, bal)
    ELSE LET p == reg[addr].problems[problem_id] IN
    IF p.owner # owner THEN Outcome("abort 5", reg, bal)
    ELSE IF ~p.open THEN Outcome("abort 6", reg, bal)
    ELSE LET i == find_solution(p.solutions, solution_id, 1)
             solver_found == IF i = 0 THEN addr ELSE p.solutions[i].solver
         IN
    IF solver_found = addr THEN Outcome("abort 7", reg, bal)
    ELSE IF ~coin_can_transfer(bal, addr, p.bounty_octas)
    THEN Outcome(EINSUFFICIENT_BALANCE, reg, bal)
    ELSE Outcome(Executed,
                 [reg EXCEPT ![addr].problems[problem_id].open = FALSE,
                             ![addr].problems[problem_id].chosen = option_some(solution_id)],
                 coin_transfer(bal, addr, solver_found, p.bounty_octas))

(***************************************************************************)
(* release_reward                                                          *)
(***************************************************************************)
release_reward(reg, bal, owner, problem_id, solution_id) ==
    LET addr == owner IN
    IF addr \notin DOMAIN reg THEN Outcome(MISSING_DATA, reg, bal)
    ELSE IF problem_id \notin DOMAIN reg[addr].problems
    THEN Outcome(TABLE_ENOT_FOUND, reg, bal)
    ELSE LET p == reg[addr].problems[problem_id] IN
    IF p.owner # addr THEN Outcome("abort 5", reg, bal)
    ELSE IF ~p.open THEN Outcome("abort 6", reg, bal)
    ELSE LET i == find_solution(p.solutions, solution_id, 1)
             solver_found == IF i = 0 THEN addr ELSE p.solutions[i].solver
         IN
    IF solver_found = addr THEN Outcome("abort 7", reg, bal)
    ELSE IF ~coin_can_transfer(bal, addr, p.bounty_octas)
    THEN Outcome(EINSUFFICIENT_BALANCE, reg, bal)
    ELSE Outcome(Executed,
                 [reg EXCEPT ![addr].problems[problem_id].open = FALSE,
                             ![addr].problems[problem_id].chosen = option_some(solution_id)],
                 coin_transfer(bal, addr, solver_found, p.bounty_octas))

(***************************************************************************)
(* The state machine.  A transaction that aborts leaves the storage as it  *)
(* was, so it is a stuttering step; what it would answer in a state is the *)
(* status of the entry function's outcome there.                           *)
(***************************************************************************)
\* Problems, solutions and votes held by the registries reg.
RECURSIVE SumVotes(_)
SumVotes(solutions) ==
    IF solutions = << >> THEN 0
    ELSE Head(solutions).votes + 1 + SumVotes(Tail(solutions))

RECURSIVE SumProblems(_, _)
SumProblems(problems, keys) ==
    IF keys = {} THEN 0
    ELSE LET k == CHOOSE x \in keys : TRUE
         IN  1 + SumVotes(problems[k].solutions) + SumProblems(problems, keys \ {k})

RECURSIVE Size(_, _)
Size(reg, addrs) ==
    IF addrs = {} THEN 0
    ELSE LET a == CHOOSE x \in addrs : TRUE
         IN  SumProblems(reg[a].problems, DOMAIN reg[a].problems) + Size(reg, addrs \ {a})

\* The storage becomes that of one of the outcomes rs (the outcomes of one
\* entry function over its arguments); the model stops growing at MaxOps.
Commit(rs) ==
    \E s \in {<<r.registry, r.balance>> : r \in rs} :
        /\ IF s[1] = registry THEN TRUE ELSE Size(s[1], DOMAIN s[1]) <= MaxOps
        /\ registry' = s[1]
        /\ balance' = s[2]
        /\ UNCHANGED frontend

(***************************************************************************)
(* The web front end before any interaction: the local store is empty and  *)
(* no handler of ProblemForm or ProblemDetail is running.  A notice is the *)
(* title of a toast; each handler's record holds the notices shown since   *)
(* it was last started.                                                    *)
(***************************************************************************)
\* txHash while callCreateProblem has not returned one.
undefined == << >>

StoreInit == localStorage = [problems |-> << >>, solutions |-> << >>]

FormInit ==
    form = [pc |-> "idle", loading |-> FALSE, currentAddress |-> "", cid |-> "",
            txHash |-> undefined, notices |-> {}]

DetailInit ==
    detail = [pc |-> "idle", loading |-> FALSE, wallet |-> "",
              problem |-> [id |-> undefined, cid |-> "", owner |-> ""], cid |-> "",
              notices |-> {}]

\* utils/ipfs.ts: no call of uploadFileToIPFS has been made.
UploadInit ==
    upload = [pc |-> "idle", apiToken |-> << >>, file |-> FALSE, tried |-> << >>,
              outcomes |-> << >>, result |-> "", error |-> "", calls |-> 0]

\* MapPicker: no address has been looked up.
PickerInit ==
    picker = [pc |-> "idle", loadingAddress |-> FALSE, address |-> "", cache |-> "",
              retryCount |-> 0, attempts |-> << >>, aborted |-> FALSE, notices |-> {},
              lookups |-> 0]

\* LocationSearch: an empty query, no timer, no request.
null == "null"
SearchInit ==
    search = [query |-> << >>, timer |-> null, results |-> << >>, showResults |-> FALSE,
              error |-> null, loading |-> FALSE, abortController |-> 0,
              requests |-> << >>, notices |-> {}]

\* No Registry is published.  A can pay either bounty, B none, C only the
\* smaller one.
Init ==
    /\ registry = << >>
    /\ balance = [a \in Addresses |-> IF a = "A" THEN 10000000 ELSE IF a = "B" THEN 0 ELSE 1]
    /\ StoreInit /\ FormInit /\ DetailInit
    /\ UploadInit /\ PickerInit /\ SearchInit

CreateProblem ==
    Commit({create_problem(registry, balance, account, cid, lat, lng, bounty_octas) :
              account \in Addresses, cid \in Cids, lat \in Lats, lng \in Lngs,
              bounty_octas \in Bounties})

AddSolution ==
    Commit({add_solution(registry, balance, account, problem_id, solver_addr, cid) :
              account \in Addresses, problem_id \in Ids, solver_addr \in Addresses,
              cid \in Cids})

VoteSolution ==
    Commit({vote_solution(registry, balance, voter, problem_id, solution_id) :
              voter \in Addresses, problem_id \in Ids, solution_id \in Ids})

ReleaseReward ==
    Commit({release_reward(registry, balance, owner, problem_id, solution_id) :
              owner \in Addresses, problem_id \in Ids, solution_id \in Ids})

Next == CreateProblem \/ AddSolution \/ VoteSolution \/ ReleaseReward

Spec == Init /\ [][Next]_vars

(***************************************************************************)
(* The problem counter alone: every identity keeps creating Problems (one  *)
(* choice of arguments), with no bound other than the width of u64.        *)
(***************************************************************************)
CreateProblemOnly ==
    \E account \in Addresses :
        LET r == create_problem(registry, balance, account, "Qm111", "37.77", "-122.42", 1)
        IN  registry' = r.registry /\ balance' = r.balance /\ UNCHANGED frontend

SpecCounter == Init /\ [][CreateProblemOnly]_vars

(***************************************************************************)
(* Vocabulary of the properties.                                           *)
(***************************************************************************)
HasProblem(reg, a, pid) == a \in DOMAIN reg /\ pid \in DOMAIN reg[a].problems
ProblemKeys(reg, a) == IF a \in DOMAIN reg THEN DOMAIN reg[a].problems ELSE {}
HasSolution(p, sid) == \E i \in 1..Len(p.solutions) : p.solutions[i].id = sid
SolverOf(p, sid) ==
    p.solutions[CHOOSE i \in 1..Len(p.solutions) : p.solutions[i].id = sid].solver
\* bal with amount moved from one balance to another.
Moved(bal, from, to, amount) ==
    [a \in Addresses |->
        bal[a] - (IF a = from THEN amount ELSE 0) + (IF a = to THEN amount ELSE 0)]
Unchanged(r) == r.registry = registry /\ r.balance = balance

(***************************************************************************)
(* C1.  release_reward succeeds whenever none of its listed abort          *)
(* conditions holds (the caller owns the Problem, the Problem is open, a   *)
(* Solution with id solution_id exists, the owner's balance is at least    *)
(* the bounty); then exactly the bounty moves from the owner to that       *)
(* Solution's solver, open becomes false and chosen becomes solution_id.   *)
(***************************************************************************)
C1_ReleaseSucceeds ==
    \A caller \in Addresses, pid \in Ids, sid \in Ids :
        (/\ HasProblem(registry, caller, pid)
         /\ registry[caller].problems[pid].owner = caller
         /\ registry[caller].problems[pid].open
         /\ HasSolution(registry[caller].problems[pid], sid)
         /\ balance[caller] >= registry[caller].problems[pid].bounty_octas)
        => LET p == registry[caller].problems[pid]
               r == release_reward(registry, balance, caller, pid, sid)
           IN  /\ r.status = Executed
               /\ r.balance = Moved(balance, caller, SolverOf(p, sid), p.bounty_octas)
               /\ r.registry[caller].problems[pid].open = FALSE
               /\ r.registry[caller].problems[pid].chosen = option_some(sid)

(***************************************************************************)
(* C2.  The worked example runs with every step succeeding: A creates      *)
(* problem 1 with bounty 10,000,000 (open, no solutions); B adds a         *)
(* solution crediting B to A's problem 1; C votes for it; A releases the   *)
(* reward and B's balance rises by 10,000,000, open = false, chosen = 1.   *)
(* Each step is stated from the state the example's earlier steps leave.   *)
(***************************************************************************)
ExampleSolution(votes) == [id |-> 1, solver |-> "B", cid |-> "Qm222", votes |-> votes]
ExampleProblem(solutions) ==
    /\ HasProblem(registry, "A", 1)
    /\ registry["A"].problems[1].open
    /\ registry["A"].problems[1].bounty_octas = 10000000
    /\ registry["A"].problems[1].solutions = solutions

C2_WorkedExample ==
    /\ "A" \notin DOMAIN registry =>
         LET r == create_problem(registry, balance, "A", "Qm111", "37.77", "-122.42", 10000000)
         IN  /\ r.status = Executed
             /\ HasProblem(r.registry, "A", 1)
             /\ r.registry["A"].problems[1].open
             /\ r.registry["A"].problems[1].solutions = << >>
             /\ r.registry["A"].problems[1].chosen = option_none
    /\ ExampleProblem(<< >>) =>
         LET r == add_solution(registry, balance, "B", 1, "B", "Qm222")
         IN  /\ r.status = Executed
             /\ r.registry["A"].problems[1].solutions = <<ExampleSolution(0)>>
    /\ ExampleProblem(<<ExampleSolution(0)>>) =>
         LET r == vote_solution(registry, balance, "C", 1, 1)
         IN  /\ r.status = Executed
             /\ r.registry["A"].problems[1].solutions = <<ExampleSolution(1)>>
    /\ (ExampleProblem(<<ExampleSolution(1)>>) /\ balance["A"] >= 10000000) =>
         LET r == release_reward(registry, balance, "A", 1, 1)
         IN  /\ r.status = Executed
             /\ r.balance["B"] = balance["B"] + 10000000
             /\ r.registry["A"].problems[1].open = FALSE
             /\ r.registry["A"].problems[1].chosen = option_some(1)

C5_NonOwnerUnauthorized ==
    \A A \in Addresses, X \in Addresses, pid \in Ids, sid \in Ids :
        (X # A /\ HasProblem(registry, A, pid) /\ registry[A].problems[pid].owner = A)
        => LET r == release_reward(registry, balance, X, pid, sid)
           IN  /\ r.status = "abort 5"
               /\ Unchanged(r)

(***************************************************************************)
(* C6.  In every reachable state and for every Problem, chosen is set if   *)
(* and only if open is false.                                              *)
(***************************************************************************)
C6_ChosenIffClosed ==
    \A a \in DOMAIN registry : \A pid \in DOMAIN registry[a].problems :
        (registry[a].problems[pid].chosen # option_none)
            <=> (registry[a].problems[pid].open = FALSE)

\* A Problem that has received a Solution and a vote is open with chosen
\* unset.
C6_Witness ==
    \E a \in DOMAIN registry : \E pid \in DOMAIN registry[a].problems :
        /\ Len(registry[a].problems[pid].solutions) >= 1
        /\ registry[a].problems[pid].solutions[1].votes >= 1
        /\ registry[a].problems[pid].open
        /\ registry[a].problems[pid].chosen = option_none

(***************************************************************************)
(* C8.  For any owner, the k-th successful create_problem creates the      *)
(* Problem with id exactly k: whenever an owner's set of problem ids       *)
(* changes, it was 1..k, it becomes 1..k+1, the new Problem carries id     *)
(* k+1, no id is dropped or reused, and no other owner's ids change.       *)
(***************************************************************************)
C8_IdsSequential ==
    [][\A a \in Addresses :
         LET old == ProblemKeys(registry, a)
             new == ProblemKeys(registry', a)
             k   == Cardinality(old)
         IN  /\ old \subseteq new
             /\ new # old =>
                  /\ old = 1..k
                  /\ new = 1..(k + 1)
                  /\ registry'[a].problems[k + 1].id = k + 1
                  /\ \A b \in Addresses \ {a} :
                         ProblemKeys(registry', b) = ProblemKeys(registry, b)]_vars

\* One owner has created three Problems while another owner created one.
C8_Witness ==
    \E a \in DOMAIN registry, b \in DOMAIN registry :
        /\ a # b
        /\ DOMAIN registry[a].problems = {1, 2, 3}
        /\ DOMAIN registry[b].problems = {1}

(***************************************************************************)
(* C9.  In every reachable state of every Registry, next_problem_id is     *)
(* strictly greater than every key of problems, and each stored Problem's  *)
(* id equals the key it is stored under.                                   *)
(***************************************************************************)
C9_NextIdAboveKeys ==
    \A a \in DOMAIN registry : \A k \in DOMAIN registry[a].problems :
        /\ k < registry[a].next_problem_id
        /\ registry[a].problems[k].id = k

\* A Registry that holds two Problems.
C9_Witness ==
    \E a \in DOMAIN registry : Cardinality(DOMAIN registry[a].problems) >= 2

(***************************************************************************)
(* C10.  add_solution fails whenever solver_addr differs from the caller,  *)
(* and then the solutions of every Problem and all other state are         *)
(* unchanged.                                                              *)
(***************************************************************************)
C10_AddSolutionSelfOnly ==
    \A account \in Addresses, pid \in Ids, solver_addr \in Addresses, cid \in Cids :
        solver_addr # account
        => LET r == add_solution(registry, balance, account, pid, solver_addr, cid)
           IN  r.status # Executed /\ Unchanged(r)

\* A caller names another identity as solver for its own open Problem: the
\* call is stopped by the solver check.
C10_Witness ==
    \E account \in Addresses, pid \in Ids, solver_addr \in Addresses, cid \in Cids :
        /\ solver_addr # account
        /\ HasProblem(registry, account, pid)
        /\ registry[account].problems[pid].open
        /\ add_solution(registry, balance, account, pid, solver_addr, cid).status = "abort 2"

(***************************************************************************)
(* C11.  A successful add_solution appends exactly one Solution with       *)
(* id = (number of solutions before) + 1, votes = 0, solver = solver_addr  *)
(* and the given cid; the Solutions already there, the Problem's other     *)
(* fields and everything else are unchanged.                               *)
(***************************************************************************)
C11_AddSolutionAppends ==
    \A account \in Addresses, pid \in Ids, solver_addr \in Addresses, cid \in Cids :
        LET r == add_solution(registry, balance, account, pid, solver_addr, cid)
        IN  r.status = Executed =>
              LET old == registry[account].problems[pid]
                  new == r.registry[account].problems[pid]
                  n   == Len(old.solutions)
              IN  /\ Len(new.solutions) = n + 1
                  /\ SubSeq(new.solutions, 1, n) = old.solutions
                  /\ new.solutions[n + 1] =
                        [id |-> n + 1, solver |-> solver_addr, cid |-> cid, votes |-> 0]
                  /\ [new EXCEPT !.solutions = old.solutions] = old
                  /\ r.registry = [registry EXCEPT ![account].problems[pid] = new]
                  /\ r.balance = balance

\* add_solution executes on a Problem that already holds a voted Solution.
C11_Witness ==
    \E account \in Addresses, pid \in Ids, cid \in Cids :
        /\ HasProblem(registry, account, pid)
        /\ Len(registry[account].problems[pid].solutions) >= 1
        /\ registry[account].problems[pid].solutions[1].votes >= 1
        /\ add_solution(registry, balance, account, pid, account, cid).status = Executed

(***************************************************************************)
(* C13.  vote_solution with a solution_id that no Solution of the          *)
(* addressed (open) Problem carries fails with the module's not-found      *)
(* abort (code 4) and leaves every Solution's votes, and all other state,  *)
(* unchanged.                                                              *)
(***************************************************************************)
C13_VoteUnknownSolution ==
    \A voter \in Addresses, pid \in Ids, sid \in Ids :
        (/\ HasProblem(registry, voter, pid)
         /\ registry[voter].problems[pid].open
         /\ ~HasSolution(registry[voter].problems[pid], sid))
        => LET r == vote_solution(registry, balance, voter, pid, sid)
           IN  r.status = "abort 4" /\ Unchanged(r)

\* A Problem holds a voted Solution and a vote names an id it does not hold.
C13_Witness ==
    \E voter \in Addresses, pid \in Ids, sid \in Ids :
        /\ HasProblem(registry, voter, pid)
        /\ Len(registry[voter].problems[pid].solutions) >= 1
        /\ registry[voter].problems[pid].solutions[1].votes >= 1
        /\ ~HasSolution(registry[voter].problems[pid], sid)
        /\ vote_solution(registry, balance, voter, pid, sid).status = "abort 4"

C15_OneWalletOneVote ==
    \A W \in Addresses, pid \in Ids, sid \in Ids :
        HasProblem(registry, W, pid) =>
            \A i \in 1..Len(registry[W].problems[pid].solutions) :
                (/\ registry[W].problems[pid].solutions[i].id = sid
                 /\ registry[W].problems[pid].solutions[i].votes >= 1)
                => vote_solution(registry, balance, W, pid, sid)
                       .registry[W].problems[pid].solutions[i].votes
                   <= registry[W].problems[pid].solutions[i].votes

(***************************************************************************)
(* C16.  Every failing call of create_problem, add_solution, vote_solution *)
(* or release_reward, whatever the cause, leaves all registries and all    *)
(* balances (and the set of identities that have a Registry) as they were. *)
(***************************************************************************)
C16_FailureChangesNothing ==
    /\ \A account \in Addresses, cid \in Cids, lat \in Lats, lng \in Lngs,
          bounty_octas \in Bounties :
            LET r == create_problem(registry, balance, account, cid, lat, lng, bounty_octas)
            IN  r.status # Executed => Unchanged(r)
    /\ \A account \in Addresses, pid \in Ids, solver_addr \in Addresses, cid \in Cids :
            LET r == add_solution(registry, balance, account, pid, solver_addr, cid)
            IN  r.status # Executed => Unchanged(r)
    /\ \A caller \in Addresses, pid \in Ids, sid \in Ids :
            /\ LET r == vote_solution(registry, balance, caller, pid, sid)
               IN  r.status # Executed => Unchanged(r)
            /\ LET r == release_reward(registry, balance, caller, pid, sid)
               IN  r.status # Executed => Unchanged(r)

\* In one state calls fail for five causes: no Registry, no such Problem,
\* solver not the signer, no such Solution, and release_reward's abort 7.
C16_Witness ==
    \E a \in Addresses, b \in Addresses, pid \in Ids, sid \in Ids, cid \in Cids :
        /\ add_solution(registry, balance, a, pid, b, cid).status = "abort 2"
        /\ vote_solution(registry, balance, a, pid, sid).status = "abort 4"
        /\ release_reward(registry, balance, a, pid, 1).status = "abort 7"
        /\ \E q \in Ids : vote_solution(registry, balance, a, q, 1).status = TABLE_ENOT_FOUND
        /\ release_reward(registry, balance, b, pid, 1).status = MISSING_DATA

(***************************************************************************)
(* C17.  add_solution, vote_solution and release_reward called with a      *)
(* problem_id under which the caller's Registry holds no Problem, also     *)
(* when the caller has no Registry, fail with a not-found failure, create  *)
(* no Registry and no Problem, and change nothing.                         *)
(***************************************************************************)
NotFoundStatuses == {MISSING_DATA, TABLE_ENOT_FOUND}

C17_MissingProblemFails ==
    \A caller \in Addresses, pid \in Ids :
        ~HasProblem(registry, caller, pid) =>
            /\ \A solver_addr \in Addresses, cid \in Cids :
                  LET r == add_solution(registry, balance, caller, pid, solver_addr, cid)
                  IN  r.status \in NotFoundStatuses /\ Unchanged(r)
            /\ \A sid \in Ids :
                  /\ LET r == vote_solution(registry, balance, caller, pid, sid)
                     IN  r.status \in NotFoundStatuses /\ Unchanged(r)
                  /\ LET r == release_reward(registry, balance, caller, pid, sid)
                     IN  r.status \in NotFoundStatuses /\ Unchanged(r)

\* One identity has no Registry, another has a Registry without Problem 2,
\* and a third identity does hold a Problem 2.
C17_Witness ==
    \E a \in Addresses, b \in Addresses, c \in Addresses :
        /\ a \notin DOMAIN registry
        /\ b \in DOMAIN registry /\ ~HasProblem(registry, b, 2)
        /\ HasProblem(registry, c, 2)
        /\ add_solution(registry, balance, a, 2, a, "Qm222").status = MISSING_DATA
        /\ vote_solution(registry, balance, b, 2, 1).status = TABLE_ENOT_FOUND

C19_CreateNeverAborts ==
    \A account \in Addresses, cid \in Cids, lat \in Lats, lng \in Lngs,
       bounty_octas \in Bounties :
        create_problem(registry, balance, account, cid, lat, lng, bounty_octas).status
            = Executed

(***************************************************************************)
(* C19 as amended.  create_problem succeeds for every caller and all       *)
(* inputs unless the caller's next_problem_id has reached the largest u64; *)
(* then the checked increment aborts the call and nothing changes.         *)
(***************************************************************************)
C19_CreateAbortsOnlyOnOverflow ==
    \A account \in Addresses, cid \in Cids, lat \in Lats, lng \in Lngs,
       bounty_octas \in Bounties :
        LET r == create_problem(registry, balance, account, cid, lat, lng, bounty_octas)
            full == /\ account \in DOMAIN registry
                    /\ registry[account].next_problem_id = MAX_U64
        IN  /\ full => (r.status = ARITHMETIC_ERROR /\ Unchanged(r))
            /\ ~full => r.status = Executed

\* An identity's counter has reached the largest u64 after it created
\* MAX_U64 - 1 Problems, while another identity can still create one.
C19_Witness ==
    \E a \in DOMAIN registry, b \in Addresses :
        /\ registry[a].next_problem_id = MAX_U64
        /\ Cardinality(DOMAIN registry[a].problems) = MAX_U64 - 1
        /\ create_problem(registry, balance, a, "Qm111", "37.77", "-122.42", 1).status
               = ARITHMETIC_ERROR
        /\ create_problem(registry, balance, b, "Qm111", "37.77", "-122.42", 1).status
               = Executed

(***************************************************************************)
(* C20.  After a successful create_problem by identity I, I's Registry     *)
(* holds a new Problem with owner = I, open = true, no solutions, chosen   *)
(* unset, and cid, lat, lng and bounty_octas equal to the arguments; every *)
(* Problem the Registry held before is unchanged.                          *)
(***************************************************************************)
C20_CreateStoresProblem ==
    \A I \in Addresses, cid \in Cids, lat \in Lats, lng \in Lngs,
       bounty_octas \in Bounties :
        LET r == create_problem(registry, balance, I, cid, lat, lng, bounty_octas)
            old == ProblemKeys(registry, I)
            new == ProblemKeys(r.registry, I)
        IN  r.status = Executed =>
              /\ old \subseteq new
              /\ Cardinality(new \ old) = 1
              /\ \A id \in new \ old :
                    r.registry[I].problems[id] =
                        [id |-> id, owner |-> I, cid |-> cid, lat |-> lat, lng |-> lng,
                         bounty_octas |-> bounty_octas, open |-> TRUE,
                         solutions |-> << >>, chosen |-> option_none]
              /\ \A k \in old : r.registry[I].problems[k] = registry[I].problems[k]

\* An identity whose Registry holds a Problem with a voted Solution creates
\* another Problem.
C20_Witness ==
    \E I \in DOMAIN registry : \E pid \in DOMAIN registry[I].problems :
        /\ Len(registry[I].problems[pid].solutions) >= 1
        /\ registry[I].problems[pid].solutions[1].votes >= 1
        /\ create_problem(registry, balance, I, "Qm222", "37.77", "-122.42", 1).status
               = Executed

(***************************************************************************)
(* C21.  ensure_registry is idempotent: for an identity that already has a *)
(* Registry it changes nothing, so a further create_problem neither resets *)
(* next_problem_id nor drops or replaces any Problem already stored; a     *)
(* Registry is created, empty and with next_problem_id = 1, only for an    *)
(* identity that has none, and only create_problem creates one.            *)
(***************************************************************************)
C21_EnsureRegistryIdempotent ==
    \A account \in Addresses :
        LET reg1 == ensure_registry(registry, account) IN
        /\ ensure_registry(reg1, account) = reg1
        /\ account \in DOMAIN registry => reg1 = registry
        /\ account \notin DOMAIN registry =>
              /\ DOMAIN reg1 = DOMAIN registry \cup {account}
              /\ reg1[account] = [next_problem_id |-> 1, problems |-> << >>]
              /\ \A a \in DOMAIN registry : reg1[a] = registry[a]
        /\ \A cid \in Cids, lat \in Lats, lng \in Lngs, bounty_octas \in Bounties :
              LET r == create_problem(registry, balance, account, cid, lat, lng, bounty_octas)
              IN  r.status = Executed =>
                    IF account \in DOMAIN registry
                    THEN /\ r.registry[account].next_problem_id
                              = registry[account].next_problem_id + 1
                         /\ \A k \in DOMAIN registry[account].problems :
                               /\ k \in DOMAIN r.registry[account].problems
                               /\ r.registry[account].problems[k]
                                     = registry[account].problems[k]
                    ELSE /\ r.registry[account].next_problem_id = 2
                         /\ DOMAIN r.registry[account].problems = {1}
        /\ \A pid \in Ids :
              /\ \A solver_addr \in Addresses, cid \in Cids :
                    DOMAIN add_solution(registry, balance, account, pid, solver_addr, cid)
                               .registry = DOMAIN registry
              /\ \A sid \in Ids :
                    /\ DOMAIN vote_solution(registry, balance, account, pid, sid).registry
                          = DOMAIN registry
                    /\ DOMAIN release_reward(registry, balance, account, pid, sid).registry
                          = DOMAIN registry

\* One identity holds a Problem with a Solution and creates a further
\* Problem, while another identity has no Registry yet and creates its first.
C21_Witness ==
    \E a \in Addresses, b \in Addresses :
        /\ HasProblem(registry, a, 1)
        /\ Len(registry[a].problems[1].solutions) >= 1
        /\ create_problem(registry, balance, a, "Qm222", "37.77", "-122.42", 1).status
              = Executed
        /\ b \notin DOMAIN registry
        /\ create_problem(registry, balance, b, "Qm111", "37.77", "-122.42", 1).status
              = Executed

(***************************************************************************)
(* C22.  The fields id, owner, cid, lat, lng and bounty_octas of a stored  *)
(* Problem are the same after every step as before it: no sequence of      *)
(* operations changes them.                                                *)
(***************************************************************************)
C22_ProblemFieldsImmutable ==
    [][\A a \in DOMAIN registry : \A k \in DOMAIN registry[a].problems :
          /\ HasProblem(registry', a, k)
          /\ registry'[a].problems[k].id = registry[a].problems[k].id
          /\ registry'[a].problems[k].owner = registry[a].problems[k].owner
          /\ registry'[a].problems[k].cid = registry[a].problems[k].cid
          /\ registry'[a].problems[k].lat = registry[a].problems[k].lat
          /\ registry'[a].problems[k].lng = registry[a].problems[k].lng
          /\ registry'[a].problems[k].bounty_octas = registry[a].problems[k].bounty_octas]_vars

\* A Problem has gone through two add_solution calls and a vote, and its cid
\* is not the cid of either Solution.
C22_Witness ==
    \E a \in Addresses :
        /\ HasProblem(registry, a, 1)
        /\ Len(registry[a].problems[1].solutions) = 2
        /\ registry[a].problems[1].solutions[1].cid # registry[a].problems[1].cid
        /\ registry[a].problems[1].solutions[2].cid # registry[a].problems[1].cid
        /\ registry[a].problems[1].solutions[2].votes = 1

(***************************************************************************)
(* C23.  Across every step the solutions of a Problem before the step are  *)
(* a prefix of its solutions after the step as far as id, solver and cid   *)
(* go (nothing is removed or reordered), no Solution's votes decreases,    *)
(* and no Problem and no Registry is deleted.                              *)
(***************************************************************************)
C23_SolutionsAppendOnly ==
    [][/\ DOMAIN registry \subseteq DOMAIN registry'
       /\ \A a \in DOMAIN registry : \A k \in DOMAIN registry[a].problems :
             /\ k \in DOMAIN registry'[a].problems
             /\ LET old == registry[a].problems[k].solutions
                    new == registry'[a].problems[k].solutions
                IN  /\ Len(old) <= Len(new)
                    /\ \A i \in 1..Len(old) :
                          /\ new[i].id = old[i].id
                          /\ new[i].solver = old[i].solver
                          /\ new[i].cid = old[i].cid
                          /\ new[i].votes >= old[i].votes]_vars

\* A Problem holds two Solutions with different cids, the first one voted
\* for before the second was appended or after.
C23_Witness ==
    \E a \in Addresses :
        /\ HasProblem(registry, a, 1)
        /\ Len(registry[a].problems[1].solutions) = 2
        /\ registry[a].problems[1].solutions[1].cid
              # registry[a].problems[1].solutions[2].cid
        /\ registry[a].problems[1].solutions[1].votes = 1

(***************************************************************************)
(* C24.  In every reachable state the Solution at position i of a          *)
(* Problem's solutions has id = i: the ids of a Problem's Solutions are    *)
(* 1, 2, ... without gap or repetition, and the scan for an id stops at    *)
(* the only Solution that has it.                                          *)
(***************************************************************************)
C24_SolutionIdIsPosition ==
    \A a \in DOMAIN registry : \A k \in DOMAIN registry[a].problems :
        LET s == registry[a].problems[k].solutions IN
        /\ \A i \in 1..Len(s) : s[i].id = i
        /\ \A sid \in Ids :
              /\ Cardinality({i \in 1..Len(s) : s[i].id = sid}) <= 1
              /\ find_solution(s, sid, 1) = IF sid <= Len(s) THEN sid ELSE 0

\* A Problem holds three Solutions.
C24_Witness ==
    \E a \in Addresses :
        /\ HasProblem(registry, a, 1)
        /\ Len(registry[a].problems[1].solutions) = 3
        /\ find_solution(registry[a].problems[1].solutions, 3, 1) = 3

\* Problem k of a's Registry has in reg2 the open and chosen it has now.
SameOpenChosen(reg2, a, k) ==
    /\ HasProblem(reg2, a, k)
    /\ reg2[a].problems[k].open = registry[a].problems[k].open
    /\ reg2[a].problems[k].chosen = registry[a].problems[k].chosen

\* Every stored Problem has in reg2 the open and chosen it has now.
AllSameOpenChosen(reg2) ==
    IF reg2 = registry THEN TRUE
    ELSE \A a \in DOMAIN registry : \A k \in DOMAIN registry[a].problems :
             SameOpenChosen(reg2, a, k)

\* What C25 says of the calls in one state.
OnlyReleaseCloses ==
    \A caller \in Addresses :
        /\ \A cid \in Cids, lat \in Lats, lng \in Lngs, bounty_octas \in Bounties :
              LET r == create_problem(registry, balance, caller, cid, lat, lng, bounty_octas)
              IN  AllSameOpenChosen(r.registry)
        /\ \A pid \in Ids :
              /\ \A solver_addr \in Addresses, cid \in Cids :
                    LET r == add_solution(registry, balance, caller, pid, solver_addr, cid)
                    IN  AllSameOpenChosen(r.registry)
              /\ \A sid \in Ids :
                    /\ LET r == vote_solution(registry, balance, caller, pid, sid)
                       IN  AllSameOpenChosen(r.registry)
                    /\ LET r == release_reward(registry, balance, caller, pid, sid)
                       IN  r.registry = registry \/
                           \A a \in DOMAIN registry : \A k \in DOMAIN registry[a].problems :
                               ~SameOpenChosen(r.registry, a, k) =>
                                   /\ r.status = Executed
                                   /\ a = caller /\ k = pid
                                   /\ HasProblem(r.registry, a, k)
                                   /\ r.registry[a].problems[k].chosen = option_some(sid)
                                   /\ HasSolution(registry[a].problems[k], sid)

(***************************************************************************)
(* C25.  A step in which the open or the chosen field of a Problem changes *)
(* is a successful release_reward on that Problem, and the chosen value it *)
(* sets is the id of a Solution the Problem holds; add_solution and        *)
(* vote_solution, successful or failing, and create_problem change the     *)
(* open and chosen of no stored Problem.                                   *)
(***************************************************************************)
C25_OnlyReleaseCloses == []OnlyReleaseCloses

\* On a Problem that holds a voted Solution, add_solution and vote_solution
\* execute and a Problem is created, while release_reward for the Solution
\* is attempted.
C25_Witness ==
    \E a \in Addresses :
        /\ HasProblem(registry, a, 1)
        /\ Len(registry[a].problems[1].solutions) = 1
        /\ registry[a].problems[1].solutions[1].votes = 1
        /\ add_solution(registry, balance, a, 1, a, "Qm111").status = Executed
        /\ vote_solution(registry, balance, a, 1, 1).status = Executed
        /\ create_problem(registry, balance, a, "Qm111", "37.77", "-122.42", 1).status
              = Executed
        /\ release_reward(registry, balance, a, 1, 1).status # Executed
        /\ registry[a].problems[1].open

\* Outcome r of a call by X in the current storage, outcome rs of the same
\* call with only X's Registry in storage.
LocalTo(X, r, rs) ==
    /\ rs.status = r.status
    /\ (X \in DOMAIN r.registry) = (X \in DOMAIN rs.registry)
    /\ X \in DOMAIN r.registry => r.registry[X] = rs.registry[X]
    /\ IF r.registry = registry THEN TRUE
       ELSE /\ DOMAIN r.registry \ {X} = DOMAIN registry \ {X}
            /\ \A Y \in DOMAIN registry \ {X} : r.registry[Y] = registry[Y]

\* What C26 says of the calls in one state.
OnlyCallersRegistry ==
    \A X \in Addresses :
        LET solo == [a \in DOMAIN registry \cap {X} |-> registry[a]] IN
        /\ \A cid \in Cids, lat \in Lats, lng \in Lngs, bounty_octas \in Bounties :
              LocalTo(X, create_problem(registry, balance, X, cid, lat, lng, bounty_octas),
                         create_problem(solo, balance, X, cid, lat, lng, bounty_octas))
        /\ \A pid \in Ids :
              /\ \A solver_addr \in Addresses, cid \in Cids :
                    LocalTo(X, add_solution(registry, balance, X, pid, solver_addr, cid),
                               add_solution(solo, balance, X, pid, solver_addr, cid))
              /\ \A sid \in Ids :
                    /\ LocalTo(X, vote_solution(registry, balance, X, pid, sid),
                                  vote_solution(solo, balance, X, pid, sid))
                    /\ LocalTo(X, release_reward(registry, balance, X, pid, sid),
                                  release_reward(solo, balance, X, pid, sid))

(***************************************************************************)
(* C26.  An operation invoked by caller X reads and modifies only the      *)
(* Registry stored under X: the Registry of every other identity, and      *)
(* whether it has one, is after the call what it was before, and the call  *)
(* answers and writes what it would with X's Registry alone in storage.    *)
(* Hence a caller other than A changes no votes, solutions, open or chosen *)
(* in A's Registry through vote_solution or release_reward.                *)
(***************************************************************************)
C26_OnlyCallersRegistry == []OnlyCallersRegistry

\* A holds Problem 1 with Solution 1.  X, whose own Problem 1 has no
\* Solution, and Z, who has no Registry, vote for and release A's Solution.
C26_Witness ==
    \E A \in Addresses, X \in Addresses, Z \in Addresses :
        /\ X # A /\ Z # A
        /\ HasProblem(registry, A, 1) /\ HasSolution(registry[A].problems[1], 1)
        /\ HasProblem(registry, X, 1)
        /\ vote_solution(registry, balance, X, 1, 1).status = "abort 4"
        /\ release_reward(registry, balance, X, 1, 1).status = "abort 7"
        /\ Z \notin DOMAIN registry
        /\ vote_solution(registry, balance, Z, 1, 1).status = MISSING_DATA
        /\ release_reward(registry, balance, Z, 1, 1).status = MISSING_DATA

(***************************************************************************)
(* Two transactions of two different signers.  A call is the tuple of the  *)
(* entry function's name, the signer and the arguments; Apply runs it on a *)
(* storage.  SpecPair is the state machine of Spec stopped at MaxPairOps   *)
(* problems, solutions and votes, with the ids 1..MaxPairOps + 1 as        *)
(* arguments (every larger id names a Problem or Solution that is missing  *)
(* in such a storage just as MaxPairOps + 1 does).                         *)
(***************************************************************************)
MaxPairOps == 2
PairIds == 1..(MaxPairOps + 1)

CreateCalls(X) ==
    {<<"create_problem", X, cid, lat, lng, bounty_octas>> :
        cid \in Cids, lat \in Lats, lng \in Lngs, bounty_octas \in Bounties}
AddCalls(X) ==
    {<<"add_solution", X, problem_id, solver_addr, cid>> :
        problem_id \in PairIds, solver_addr \in Addresses, cid \in Cids}
VoteCalls(X) ==
    {<<"vote_solution", X, problem_id, solution_id>> :
        problem_id \in PairIds, solution_id \in PairIds}
ReleaseCalls(X) ==
    {<<"release_reward", X, problem_id, solution_id>> :
        problem_id \in PairIds, solution_id \in PairIds}
Calls(X) == CreateCalls(X) \cup AddCalls(X) \cup VoteCalls(X) \cup ReleaseCalls(X)

Apply(call, reg, bal) ==
    CASE call[1] = "create_problem" ->
            create_problem(reg, bal, call[2], call[3], call[4], call[5], call[6])
      [] call[1] = "add_solution" ->
            add_solution(reg, bal, call[2], call[3], call[4], call[5])
      [] call[1] = "vote_solution" ->
            vote_solution(reg, bal, call[2], call[3], call[4])
      [] call[1] = "release_reward" ->
            release_reward(reg, bal, call[2], call[3], call[4])

CommitPair(calls) ==
    \E s \in {<<r.registry, r.balance>> : r \in {Apply(c, registry, balance) : c \in calls}} :
        /\ IF s[1] = registry THEN TRUE ELSE Size(s[1], DOMAIN s[1]) <= MaxPairOps
        /\ registry' = s[1]
        /\ balance' = s[2]
        /\ UNCHANGED frontend

PairNext ==
    \/ CommitPair(UNION {CreateCalls(X) : X \in Addresses})
    \/ CommitPair(UNION {AddCalls(X) : X \in Addresses})
    \/ CommitPair(UNION {VoteCalls(X) : X \in Addresses})
    \/ CommitPair(UNION {ReleaseCalls(X) : X \in Addresses})

SpecPair == Init /\ [][PairNext]_vars

(***************************************************************************)
(* C27.  Operations on different Registries are independent: in every      *)
(* reachable state, two entry-function calls by two different signers run  *)
(* in either order give each call the same status and end in the same      *)
(* registries and balances.                                                *)
(***************************************************************************)
C27_DifferentCallersCommute ==
    \A P \in {Q \in SUBSET Addresses : Cardinality(Q) = 2} :
        LET X == CHOOSE a \in P : TRUE
            Y == CHOOSE a \in P \ {X} : TRUE
        IN  \A c1 \in Calls(X), c2 \in Calls(Y) :
                LET r1  == Apply(c1, registry, balance)
                    r12 == Apply(c2, r1.registry, r1.balance)
                    r2  == Apply(c2, registry, balance)
                    r21 == Apply(c1, r2.registry, r2.balance)
                IN  /\ r1.status = r21.status
                    /\ r2.status = r12.status
                    /\ r12.registry = r21.registry
                    /\ r12.balance = r21.balance

\* X holds a Problem with a Solution and Y has no Registry: X's vote and
\* Y's first create_problem execute in both orders and end in the same
\* registries; X's release_reward for the Solution aborts.
C27_Witness ==
    \E X \in Addresses, Y \in Addresses :
        /\ X # Y
        /\ HasProblem(registry, X, 1) /\ HasSolution(registry[X].problems[1], 1)
        /\ Y \notin DOMAIN registry
        /\ LET c1  == <<"vote_solution", X, 1, 1>>
               c2  == <<"create_problem", Y, "Qm111", "37.77", "-122.42", 1>>
               r1  == Apply(c1, registry, balance)
               r12 == Apply(c2, r1.registry, r1.balance)
               r2  == Apply(c2, registry, balance)
               r21 == Apply(c1, r2.registry, r2.balance)
           IN  /\ r1.status = Executed /\ r2.status = Executed
               /\ r12.status = Executed /\ r21.status = Executed
               /\ r12.registry = r21.registry
               /\ r12.registry # r1.registry /\ r12.registry # r2.registry
        /\ Apply(<<"release_reward", X, 1, 1>>, registry, balance).status = "abort 7"

(***************************************************************************)
(* C28.  As claimed: every failure of an entry function carries one of the *)
(* codes 1..7.                                                             *)
(***************************************************************************)
ModuleAborts ==
    {"abort 1", "abort 2", "abort 3", "abort 4", "abort 5", "abort 6", "abort 7"}

ModuleChecksHaveCodes ==
    \A X \in Addresses :
        /\ \A cid \in Cids, lat \in Lats, lng \in Lngs, bounty_octas \in Bounties :
              create_problem(registry, balance, X, cid, lat, lng, bounty_octas).status
                  \in {Executed, ARITHMETIC_ERROR, TABLE_EALREADY_EXISTS}
        /\ \A pid \in Ids :
              LET found == HasProblem(registry, X, pid)
                  p     == registry[X].problems[pid]
              IN
              /\ \A solver_addr \in Addresses, cid \in Cids :
                    LET s == add_solution(registry, balance, X, pid, solver_addr, cid).status
                    IN  /\ (s = MISSING_DATA) = (X \notin DOMAIN registry)
                        /\ (s = TABLE_ENOT_FOUND) = (X \in DOMAIN registry /\ ~found)
                        /\ found =>
                              /\ s \in {"abort 1", "abort 2", ARITHMETIC_ERROR, Executed}
                              /\ (s = "abort 1") = ~p.open
                              /\ (s = "abort 2") = (p.open /\ solver_addr # X)
              /\ \A sid \in Ids :
                    LET s == vote_solution(registry, balance, X, pid, sid).status
                    IN  /\ (s = MISSING_DATA) = (X \notin DOMAIN registry)
                        /\ (s = TABLE_ENOT_FOUND) = (X \in DOMAIN registry /\ ~found)
                        /\ found =>
                              /\ s \in {"abort 3", "abort 4", ARITHMETIC_ERROR, Executed}
                              /\ (s = "abort 3") = ~p.open
                              /\ (s = "abort 4") = (p.open /\ ~HasSolution(p, sid))
              /\ \A sid \in Ids :
                    LET s == release_reward(registry, balance, X, pid, sid).status
                    IN  /\ (s = MISSING_DATA) = (X \notin DOMAIN registry)
                        /\ (s = TABLE_ENOT_FOUND) = (X \in DOMAIN registry /\ ~found)
                        /\ found =>
                              /\ s \in {"abort 5", "abort 6", "abort 7",
                                        EINSUFFICIENT_BALANCE, Executed}
                              /\ (s = "abort 5") = (p.owner # X)
                              /\ (s = "abort 6") = (p.owner = X /\ ~p.open)
                              /\ (s = "abort 7") =
                                    (/\ p.owner = X /\ p.open
                                     /\ \A i \in 1..Len(p.solutions) :
                                           p.solutions[i].id = sid
                                               => p.solutions[i].solver = X)

C29_CheckOrder ==
    \A X \in Addresses, pid \in Ids :
        HasProblem(registry, X, pid) =>
            LET p == registry[X].problems[pid] IN
            /\ \A sid \in Ids :
                  LET s == release_reward(registry, balance, X, pid, sid).status
                  IN  /\ (p.owner # X /\ ~p.open) => s = "abort 5"
                      /\ (p.owner = X /\ ~p.open /\ ~HasSolution(p, sid)) => s = "abort 6"
                      /\ (/\ p.owner = X /\ p.open /\ ~HasSolution(p, sid)
                          /\ ~coin_can_transfer(balance, X, p.bounty_octas)) => s = "abort 7"
            /\ \A solver_addr \in Addresses, cid \in Cids :
                  (~p.open /\ solver_addr # X) =>
                      add_solution(registry, balance, X, pid, solver_addr, cid).status
                          = "abort 1"

\* The owner of an open Problem cannot pay its bounty and asks to release a
\* Solution the Problem does not hold.
C29_Witness ==
    \E X \in Addresses :
        /\ HasProblem(registry, X, 1)
        /\ Len(registry[X].problems[1].solutions) = 1
        /\ ~coin_can_transfer(balance, X, registry[X].problems[1].bounty_octas)
        /\ release_reward(registry, balance, X, 1, 2).status = "abort 7"

C31_SolverIsRegistryAddress ==
    \A X \in DOMAIN registry : \A k \in DOMAIN registry[X].problems :
        \A i \in 1..Len(registry[X].problems[k].solutions) :
            registry[X].problems[k].solutions[i].solver = X

\* Two identities each hold a Problem with a Solution, and add_solution for
\* the other identity as solver is refused.
C31_Witness ==
    \E X \in Addresses, Y \in Addresses :
        /\ X # Y
        /\ HasProblem(registry, X, 1) /\ HasProblem(registry, Y, 1)
        /\ Len(registry[X].problems[1].solutions) = 1
        /\ Len(registry[Y].problems[1].solutions) = 1
        /\ add_solution(registry, balance, X, 1, Y, "Qm111").status = "abort 2"

(***************************************************************************)
(* C32.  In every reachable state every Problem stored in the Registry at  *)
(* address X has owner = X, so release_reward, once it has found the       *)
(* Problem, never fails its owner check: no call answers with code 5.      *)
(***************************************************************************)
C32_OwnerIsRegistryAddress ==
    /\ \A X \in DOMAIN registry : \A k \in DOMAIN registry[X].problems :
          registry[X].problems[k].owner = X
    /\ \A X \in Addresses, pid \in Ids, sid \in Ids :
          release_reward(registry, balance, X, pid, sid).status # "abort 5"

\* X and Y hold Problems; X's release_reward on its own Problem 2 gets past
\* the owner check, and Y's on an id only X holds finds no Problem.
C32_Witness ==
    \E X \in Addresses, Y \in Addresses :
        /\ X # Y
        /\ HasProblem(registry, X, 2) /\ registry[X].problems[2].owner = X
        /\ HasProblem(registry, Y, 1) /\ ~HasProblem(registry, Y, 2)
        /\ release_reward(registry, balance, X, 2, 1).status = "abort 7"
        /\ release_reward(registry, balance, Y, 2, 1).status = TABLE_ENOT_FOUND

(***************************************************************************)
(* C33.  Value is conserved: the sum of all balances is the same in every  *)
(* reachable state, and the only call that changes a balance is a          *)
(* successful release_reward, which takes the bounty from the owner and    *)
(* gives the same amount to the solver.                                    *)
(***************************************************************************)
RECURSIVE SumBalances(_, _)
SumBalances(bal, addrs) ==
    IF addrs = {} THEN 0
    ELSE LET a == CHOOSE x \in addrs : TRUE
         IN  bal[a] + SumBalances(bal, addrs \ {a})

C33_ValueConserved ==
    /\ SumBalances(balance, Addresses) = 10000000 + 0 + 1
    /\ \A X \in Addresses :
          /\ \A cid \in Cids, lat \in Lats, lng \in Lngs, bounty_octas \in Bounties :
                create_problem(registry, balance, X, cid, lat, lng, bounty_octas).balance
                    = balance
          /\ \A pid \in Ids :
                /\ \A solver_addr \in Addresses, cid \in Cids :
                      add_solution(registry, balance, X, pid, solver_addr, cid).balance
                          = balance
                /\ \A sid \in Ids :
                      /\ vote_solution(registry, balance, X, pid, sid).balance = balance
                      /\ LET r == release_reward(registry, balance, X, pid, sid)
                         IN  r.balance = balance \/
                               /\ r.status = Executed
                               /\ HasProblem(registry, X, pid)
                               /\ HasSolution(registry[X].problems[pid], sid)
                               /\ r.balance =
                                    Moved(balance, X,
                                          SolverOf(registry[X].problems[pid], sid),
                                          registry[X].problems[pid].bounty_octas)

\* A, who can pay, holds the Problem with the larger bounty and a voted
\* Solution: create_problem, add_solution and vote_solution execute, and
\* release_reward is asked for the Solution.
C33_Witness ==
    /\ HasProblem(registry, "A", 1)
    /\ registry["A"].problems[1].bounty_octas = 10000000
    /\ Len(registry["A"].problems[1].solutions) = 1
    /\ registry["A"].problems[1].solutions[1].votes = 1
    /\ create_problem(registry, balance, "A", "Qm111", "37.77", "-122.42", 10000000).status
          = Executed
    /\ add_solution(registry, balance, "A", 1, "A", "Qm222").status = Executed
    /\ vote_solution(registry, balance, "A", 1, 1).status = Executed
    /\ release_reward(registry, balance, "A", 1, 1).balance = balance

(***************************************************************************)
(* The web front end: ProblemForm.onSubmit and ProblemDetail.addSolution.  *)
(* Each handler is async; one action is the part of the handler that runs  *)
(* from one await to the next.  The uploads resolve with a content id or   *)
(* reject; the wallet call of utils/aptos.ts either throws before a        *)
(* transaction exists (no wallet, the user declines) or submits the        *)
(* transaction, which runs the entry function on the ledger, and throws    *)
(* when the transaction did not execute.                                   *)
(***************************************************************************)
\* Problems ProblemForm may add to the local store.
MaxSubmits == 2
\* Solutions ProblemDetail may add to the local store.
MaxLocalSolutions == 1

\* What the uploads of the two handlers resolve to, and the bounty of the
\* form: toOctas of its initial bountyAPT "0.1".
UploadedCids == {"Qm111"}
FormBounties == {10000000}

\* toast(...): one more notice of the handler h.
toast(h, title) == [h EXCEPT !.notices = @ \cup {title}]

\* utils/store.ts
addProblem(store, p) == [store EXCEPT !.problems = <<p>> \o @]
addLocalSolution(store, problemId, solution) ==
    [store EXCEPT !.solutions = Append(@, [problemId |-> problemId, solution |-> solution])]
getLocalSolutions(store, problemId) ==
    {store.solutions[i].solution :
        i \in {j \in 1..Len(store.solutions) : store.solutions[j].problemId = problemId}}

\* utils/aptos.ts: the wallet signs as its connected account; walletOk is
\* whether signAndSubmitTransaction returns.  The call returns (status
\* Executed) only when the submitted transaction executed.
WALLET_ERROR == "wallet error"
callCreateProblem(reg, bal, walletOk, signer, cid, lat, lng, bountyOctas) ==
    IF ~walletOk THEN Outcome(WALLET_ERROR, reg, bal)
    ELSE create_problem(reg, bal, signer, cid, lat, lng, bountyOctas)
callAddSolution(reg, bal, walletOk, signer, problemId, solver, cid) ==
    IF ~walletOk THEN Outcome(WALLET_ERROR, reg, bal)
    ELSE add_solution(reg, bal, signer, problemId, solver, cid)

\* onSubmit up to the first await: validation, the wallet check, the first
\* notice.  The form and the detail view are two pages: a handler of one
\* starts when none of the other is running.
FormSubmit ==
    /\ form.pc = "idle" /\ detail.pc = "idle"
    /\ Len(localStorage.problems) < MaxSubmits
    /\ \E valid \in BOOLEAN, currentAddress \in Addresses \cup {""} :
          LET f == [form EXCEPT !.notices = {}, !.txHash = undefined,
                                !.currentAddress = currentAddress, !.cid = ""]
          IN  form' = IF ~valid THEN toast(f, "Form Error")
                      ELSE IF currentAddress = "" THEN toast(f, "Wallet not connected")
                      ELSE [toast(f, "Uploading to IPFS") EXCEPT
                               !.loading = TRUE, !.pc = "uploadImage"]
    /\ UNCHANGED <<registry, balance, localStorage, detail>>
    /\ UNCHANGED widgets

\* The outer catch and finally of onSubmit.
FormFailed(f) == [toast(f, "Submission Failed") EXCEPT !.loading = FALSE, !.pc = "idle"]

\* uploadFileToIPFS(nftToken, image) settles.
FormImageUploaded ==
    /\ form.pc = "uploadImage"
    /\ \E ok \in BOOLEAN :
          form' = IF ok THEN [toast(form, "Image Uploaded") EXCEPT !.pc = "uploadMetadata"]
                  ELSE FormFailed(form)
    /\ UNCHANGED <<registry, balance, localStorage, detail>>
    /\ UNCHANGED widgets

\* uploadJSONToIPFS(nftToken, metadata) settles.
FormMetadataUploaded ==
    /\ form.pc = "uploadMetadata"
    /\ \E ok \in BOOLEAN, cid \in UploadedCids :
          form' = IF ok THEN [toast(form, "IPFS Upload Complete") EXCEPT
                                 !.pc = "chain", !.cid = cid]
                  ELSE FormFailed(form)
    /\ UNCHANGED <<registry, balance, localStorage, detail>>
    /\ UNCHANGED widgets

\* callCreateProblem settles and onSubmit runs to its end: the inner
\* try / catch, addProblem, the final notice, finally.
FormChain ==
    /\ form.pc = "chain"
    /\ \E walletOk \in BOOLEAN, lat \in Lats, lng \in Lngs, bountyOctas \in FormBounties :
          LET r      == callCreateProblem(registry, balance, walletOk, form.currentAddress,
                                          form.cid, lat, lng, bountyOctas)
              txHash == IF r.status = Executed
                        THEN <<"0x", Len(localStorage.problems) + 1>> ELSE undefined
              f1     == IF r.status = Executed
                        THEN toast(form, "Problem Posted Successfully")
                        ELSE toast(form, "Blockchain Transaction Failed")
              problem == [id |-> IF txHash # undefined THEN txHash
                                 ELSE <<"Date.now", Len(localStorage.problems) + 1>>,
                          cid |-> form.cid, owner |-> form.currentAddress]
          IN  /\ registry' = r.registry
              /\ balance' = r.balance
              /\ localStorage' = addProblem(localStorage, problem)
              /\ form' = [toast(f1, "Problem Submitted") EXCEPT
                             !.txHash = txHash, !.cid = "", !.loading = FALSE,
                             !.pc = "idle"]
    /\ UNCHANGED detail
    /\ UNCHANGED widgets

\* addSolution up to the first await, for one Problem of the local store and
\* the account the wallet is connected with.
DetailAddSolution ==
    /\ detail.pc = "idle" /\ form.pc = "idle"
    /\ Len(localStorage.solutions) < MaxLocalSolutions
    /\ \E i \in 1..Len(localStorage.problems), wallet \in Addresses :
          detail' = [pc |-> "upload", loading |-> TRUE, wallet |-> wallet,
                     problem |-> localStorage.problems[i], cid |-> "", notices |-> {}]
    /\ UNCHANGED <<registry, balance, localStorage, form>>
    /\ UNCHANGED widgets

\* uploadJSONToIPFS settles; on success the Solution goes to the local store.
DetailUploaded ==
    /\ detail.pc = "upload"
    /\ \E ok \in BOOLEAN, cid \in UploadedCids :
          IF ok
          THEN /\ localStorage' =
                     addLocalSolution(localStorage, detail.problem.id,
                                      [cid |-> cid, solver |-> "", votes |-> 0])
               /\ detail' = [detail EXCEPT !.pc = "chain", !.cid = cid]
          ELSE /\ localStorage' = localStorage
               /\ detail' = [toast(detail, "Failed to add solution") EXCEPT
                                !.loading = FALSE, !.pc = "idle"]
    /\ UNCHANGED <<registry, balance, form>>
    /\ UNCHANGED widgets

\* addSolution that names the wallet's own account as the solver.
DetailChain_signer ==
    /\ detail.pc = "chain"
    /\ \E walletOk \in BOOLEAN, problemId \in Ids :
          LET problem == detail.problem
              r == callAddSolution(registry, balance, walletOk, detail.wallet, problemId,
                                   detail.wallet, detail.cid)
          IN  /\ registry' = r.registry
              /\ balance' = r.balance
              /\ detail' = [toast(detail, IF r.status = Executed
                                          THEN "Solution submitted on-chain"
                                          ELSE "Chain submit failed") EXCEPT
                               !.loading = FALSE, !.pc = "idle"]
    /\ UNCHANGED <<localStorage, form>>
    /\ UNCHANGED widgets

\* callAddSolution(moduleAddress, problem.id, problem.owner, cid) settles and
\* addSolution runs to its end.  problem.id is the local id (a transaction
\* hash or a timestamp), not the Problem's id on the ledger: the ledger is
\* let receive any id.
DetailChain ==
    /\ detail.pc = "chain"
    /\ \E walletOk \in BOOLEAN, problemId \in Ids :
          LET problem == detail.problem
              r == callAddSolution(registry, balance, walletOk, detail.wallet, problemId,
                                   problem.owner, detail.cid)
          IN  /\ registry' = r.registry
              /\ balance' = r.balance
              /\ detail' = [toast(detail, IF r.status = Executed
                                          THEN "Solution submitted on-chain"
                                          ELSE "Chain submit failed") EXCEPT
                               !.loading = FALSE, !.pc = "idle"]
    /\ UNCHANGED <<localStorage, form>>
    /\ UNCHANGED widgets

AppNext ==
    \/ FormSubmit \/ FormImageUploaded \/ FormMetadataUploaded \/ FormChain
    \/ DetailAddSolution \/ DetailUploaded \/ DetailChain

SpecApp == Init /\ [][AppNext]_vars

(***************************************************************************)
(* C34.  In the ProblemForm submit flow a Problem is in the local store,   *)
(* and the final notice "Problem Submitted" (your problem has been         *)
(* successfully recorded on the blockchain) is shown, only if the          *)
(* create_problem transaction was submitted and confirmed: every stored    *)
(* Problem carries the hash of its transaction, and the final notice comes *)
(* with one.                                                               *)
(***************************************************************************)
C34_StoredOnlyIfConfirmed ==
    /\ \A i \in 1..Len(localStorage.problems) : localStorage.problems[i].id[1] = "0x"
    /\ "Problem Submitted" \in form.notices =>
          /\ form.txHash # undefined
          /\ "Blockchain Transaction Failed" \notin form.notices

(***************************************************************************)
(* C35.  ProblemDetail's add-solution flow names the Problem's stored      *)
(* owner as the solver.  For a wallet connected with an account other than *)
(* that owner the add_solution transaction it issues is rejected whatever  *)
(* the ledger holds (the solver must be the signer), the flow reports      *)
(* "Chain submit failed" and never "Solution submitted on-chain", and the  *)
(* Solution written to the local store before the call stays there.        *)
(***************************************************************************)
C35_ForeignWalletRejected ==
    (detail.wallet # "" /\ detail.wallet # detail.problem.owner) =>
        /\ "Solution submitted on-chain" \notin detail.notices
        /\ detail.pc = "chain" =>
              /\ \A walletOk \in BOOLEAN, problemId \in Ids :
                    LET r == callAddSolution(registry, balance, walletOk, detail.wallet,
                                             problemId, detail.problem.owner, detail.cid)
                    IN  r.status # Executed /\ r.registry = registry
              /\ [cid |-> detail.cid, solver |-> "", votes |-> 0]
                    \in getLocalSolutions(localStorage, detail.problem.id)
        /\ (detail.pc = "idle" /\ detail.cid # "") =>
              /\ "Chain submit failed" \in detail.notices
              /\ [cid |-> detail.cid, solver |-> "", votes |-> 0]
                    \in getLocalSolutions(localStorage, detail.problem.id)

\* The flow has ended for a wallet that is not the Problem's owner and that
\* holds a Problem 1 of its own on the ledger: the transaction was refused
\* because the solver is not the signer, and the local Solution is kept.
C35_Witness ==
    /\ detail.pc = "idle" /\ ~detail.loading
    /\ detail.wallet # "" /\ detail.wallet # detail.problem.owner
    /\ detail.notices = {"Chain submit failed"}
    /\ HasProblem(registry, detail.wallet, 1)
    /\ add_solution(registry, balance, detail.wallet, 1, detail.problem.owner, detail.cid)
          .status = "abort 2"
    /\ getLocalSolutions(localStorage, detail.problem.id) # {}

(***************************************************************************)
(* utils/ipfs.ts: uploadFileToIPFS.  A token is the sequence of its        *)
(* characters.  upload.tried lists the providers the call has turned to,   *)
(* upload.outcomes what each of them answered: a content id, "rejected"    *)
(* (the request or the reading of its body threw) or "not ok" (a response  *)
(* whose ok flag is false).                                                *)
(***************************************************************************)
\* Calls of uploadFileToIPFS in one behaviour.
MaxUploads == 3

ApiTokens ==
    { << >>, <<" ", " ">>, <<"e", "y", "J", "h">>, <<" ", "e", "y", "J">>, <<"k", "e", "y">> }

RECURSIVE trim(_)
trim(s) ==
    IF s = << >> THEN s
    ELSE IF Head(s) = " " THEN trim(Tail(s))
    ELSE IF s[Len(s)] = " " THEN trim(SubSeq(s, 1, Len(s) - 1))
    ELSE s

startsWith(s, prefix) ==
    /\ Len(s) >= Len(prefix)
    /\ SubSeq(s, 1, Len(prefix)) = prefix

UploadThrows(u, message) == [u EXCEPT !.pc = "thrown", !.error = message]
UploadReturns(u, cid) == [u EXCEPT !.pc = "returned", !.result = cid]
UploadTries(u, provider) == [u EXCEPT !.pc = provider, !.tried = Append(@, provider)]
UploadAnswered(u, answer) == [u EXCEPT !.outcomes = Append(@, answer)]

\* uploadFileToIPFS up to its first await: the two argument checks and the
\* choice of the first provider.
UploadCall ==
    /\ upload.pc \in {"idle", "returned", "thrown"}
    /\ upload.calls < MaxUploads
    /\ \E apiToken \in ApiTokens, file \in BOOLEAN :
          LET u == [pc |-> "idle", apiToken |-> apiToken, file |-> file, tried |-> << >>,
                    outcomes |-> << >>, result |-> "", error |-> "",
                    calls |-> upload.calls + 1]
          IN  upload' =
                IF apiToken = << >> \/ trim(apiToken) = << >>
                THEN UploadThrows(u, "IPFS API token is required")
                ELSE IF ~file THEN UploadThrows(u, "File is required for IPFS upload")
                ELSE IF startsWith(apiToken, <<"e", "y", "J">>)
                     THEN UploadTries(u, "NFT.Storage")
                     ELSE UploadTries(u, "Pinata")
    /\ UNCHANGED <<registry, balance, localStorage, form, detail, picker, search>>

\* client.storeBlob settles: its content id is returned, a failure falls
\* through to Pinata.
UploadNFTStorage ==
    /\ upload.pc = "NFT.Storage"
    /\ \E answer \in Cids \cup {"rejected"} :
          upload' = IF answer \in Cids
                    THEN UploadReturns(UploadAnswered(upload, answer), answer)
                    ELSE UploadTries(UploadAnswered(upload, answer), "Pinata")
    /\ UNCHANGED <<registry, balance, localStorage, form, detail, picker, search>>

\* A Pinata step that goes on to Web3.Storage whatever Pinata answered.
UploadPinata_continue ==
    /\ upload.pc = "Pinata"
    /\ \E answer \in Cids \cup {"rejected", "not ok"} :
          upload' = UploadTries(UploadAnswered(upload, answer), "Web3.Storage")
    /\ UNCHANGED <<registry, balance, localStorage, form, detail, picker, search>>

\* The Pinata request settles: result.IpfsHash of an ok response is
\* returned, anything else falls through to Web3.Storage.
UploadPinata ==
    /\ upload.pc = "Pinata"
    /\ \E answer \in Cids \cup {"rejected", "not ok"} :
          upload' = IF answer \in Cids
                    THEN UploadReturns(UploadAnswered(upload, answer), answer)
                    ELSE UploadTries(UploadAnswered(upload, answer), "Web3.Storage")
    /\ UNCHANGED <<registry, balance, localStorage, form, detail, picker, search>>

\* The Web3.Storage request settles: result.cid of an ok response is
\* returned, anything else reaches the final throw.
UploadWeb3Storage ==
    /\ upload.pc = "Web3.Storage"
    /\ \E answer \in Cids \cup {"rejected", "not ok"} :
          upload' = IF answer \in Cids
                    THEN UploadReturns(UploadAnswered(upload, answer), answer)
                    ELSE UploadThrows(UploadAnswered(upload, answer),
                                      "Failed to upload to any IPFS service")
    /\ UNCHANGED <<registry, balance, localStorage, form, detail, picker, search>>

UploadNext ==
    \/ UploadCall \/ UploadNFTStorage \/ UploadPinata \/ UploadWeb3Storage

SpecUpload == Init /\ [][UploadNext]_vars

\* The providers a call with this token may turn to, in the order it does.
Applicable(apiToken) ==
    IF startsWith(apiToken, <<"e", "y", "J">>)
    THEN <<"NFT.Storage", "Pinata", "Web3.Storage">>
    ELSE <<"Pinata", "Web3.Storage">>

Blank(apiToken) == \A i \in 1..Len(apiToken) : apiToken[i] = " "

(***************************************************************************)
(* C36.  uploadFileToIPFS turns to the providers in the order NFT.Storage  *)
(* (only for a token that starts with "eyJ"), Pinata, Web3.Storage; no     *)
(* provider is tried after one has answered with a content id, and that id *)
(* is what the call returns; the call throws only when every applicable    *)
(* provider has failed, or, before any provider is tried, when the token   *)
(* is empty or blank or there is no file.                                  *)
(***************************************************************************)
C36_ProviderOrder ==
    upload.calls > 0 =>
        LET order == Applicable(upload.apiToken)
            n     == Len(upload.tried)
            m     == Len(upload.outcomes)
        IN  /\ n <= Len(order) /\ upload.tried = SubSeq(order, 1, n)
            /\ \A i \in 1..m : i < n => upload.outcomes[i] \notin Cids
            /\ upload.pc = "returned" =>
                  /\ n > 0 /\ m = n
                  /\ upload.outcomes[n] \in Cids
                  /\ upload.result = upload.outcomes[n]
            /\ upload.pc = "thrown" =>
                  \/ /\ Blank(upload.apiToken) \/ ~upload.file
                     /\ upload.tried = << >>
                  \/ /\ ~Blank(upload.apiToken) /\ upload.file
                     /\ upload.tried = order /\ m = n
                     /\ \A i \in 1..m : upload.outcomes[i] \notin Cids
            /\ (Blank(upload.apiToken) \/ ~upload.file) =>
                  upload.pc = "thrown" /\ upload.tried = << >>

\* A call with an "eyJ" token that NFT.Storage and Pinata failed has
\* returned the content id Web3.Storage answered with.
C36_Witness ==
    /\ upload.pc = "returned"
    /\ upload.tried = <<"NFT.Storage", "Pinata", "Web3.Storage">>
    /\ upload.outcomes = <<"rejected", "not ok", "Qm111">>
    /\ upload.result = "Qm111"

(***************************************************************************)
(* MapPicker.updateAddress with utils/geocoding's reverseGeocode and       *)
(* formatAddress.  picker.attempts lists what each call of reverseGeocode  *)
(* of the lookup in progress gave: a result object, null, or the error it  *)
(* threw.  picker.aborted is the state of the lookup's AbortController,    *)
(* whose signal every call of the lookup shares.                           *)
(***************************************************************************)
\* Lookups in one behaviour.
MaxLookups == 3
maxRetries == 2

\* What Nominatim may answer with: an address with parts, an address with
\* none of the parts formatAddress reads, and an object without address.
GeocodeResults ==
    { [address |-> <<"Main St", "Springfield">>, display_name |-> "Main St, Springfield, US"],
      [address |-> << >>, display_name |-> "North Sea"],
      [error |-> "Unable to geocode"] }

ABORT_ERROR == "AbortError"
NETWORK_ERROR == "Network Error: Unable to connect to geocoding service"
UNAVAILABLE == "Location information unavailable"
COORDINATES == "Coordinates: lat, lng"

\* How a call of reverseGeocode settles: under an aborted signal it throws
\* AbortError; otherwise it resolves with a result or with null, or throws
\* the network error.
Resolved(value) == [settled |-> "resolved", value |-> value]
RESOLVED_NULL == [settled |-> "resolved", null |-> TRUE]
Threw(error) == [settled |-> "threw", error |-> error]
GeocodeOutcomes(aborted) ==
    IF aborted THEN {Threw(ABORT_ERROR)}
    ELSE {Resolved(result) : result \in GeocodeResults}
            \cup {RESOLVED_NULL, Threw(NETWORK_ERROR)}

RECURSIVE join(_, _)
join(parts, separator) ==
    IF parts = << >> THEN ""
    ELSE IF Len(parts) = 1 THEN parts[1]
    ELSE parts[1] \o separator \o join(Tail(parts), separator)

\* formatAddress of a result that has an address.
formatAddress(result) ==
    IF join(result.address, ", ") # "" THEN join(result.address, ", ")
    ELSE result.display_name

\* The finally block of updateAddress.
PickerFinally(p) == [p EXCEPT !.loadingAddress = FALSE, !.pc = "done"]

\* The catch block of updateAddress, then finally.
PickerCatch(p, errorTitle) ==
    PickerFinally([p EXCEPT !.notices = @ \cup {errorTitle}, !.address = COORDINATES])

\* updateAddress up to its first await: the cache, or the first attempt.
PickerUpdateAddress ==
    /\ picker.pc \in {"idle", "done"}
    /\ picker.lookups < MaxLookups
    /\ \E cached \in BOOLEAN :
          /\ cached => picker.cache # ""
          /\ LET p == [picker EXCEPT !.loadingAddress = TRUE, !.retryCount = 0,
                                     !.attempts = << >>, !.aborted = FALSE,
                                     !.notices = {}, !.lookups = @ + 1]
             IN  picker' = IF cached
                           THEN PickerFinally([p EXCEPT !.address = picker.cache])
                           ELSE [p EXCEPT !.pc = "fetch"]
    /\ UNCHANGED <<registry, balance, localStorage, form, detail, upload, search>>

\* The 8 s timer of the lookup fires.
PickerTimeout ==
    /\ picker.pc \in {"fetch", "delay"}
    /\ ~picker.aborted
    /\ picker' = [picker EXCEPT !.aborted = TRUE]
    /\ UNCHANGED <<registry, balance, localStorage, form, detail, upload, search>>

\* A lookup that waits and tries again after any error while retries are left.
PickerReverseGeocode_retry_abort ==
    /\ picker.pc = "fetch"
    /\ \E outcome \in GeocodeOutcomes(picker.aborted) :
          LET p == [picker EXCEPT !.attempts = Append(@, outcome)]
          IN  picker' =
                IF outcome.settled = "threw"
                THEN IF picker.retryCount >= maxRetries
                     THEN PickerCatch(p, IF outcome.error = ABORT_ERROR THEN "Request Timeout"
                                         ELSE "Network Error")
                     ELSE [p EXCEPT !.pc = "delay"]
                ELSE IF outcome = RESOLVED_NULL
                THEN PickerFinally([p EXCEPT !.address = UNAVAILABLE])
                ELSE IF "address" \in DOMAIN outcome.value
                THEN PickerFinally([p EXCEPT !.address = formatAddress(outcome.value),
                                             !.cache = formatAddress(outcome.value)])
                ELSE PickerCatch(p, "Address Lookup Failed")
    /\ UNCHANGED <<registry, balance, localStorage, form, detail, upload, search>>

\* reverseGeocode settles, and the lookup runs to its next await or to its
\* end.
PickerReverseGeocode ==
    /\ picker.pc = "fetch"
    /\ \E outcome \in GeocodeOutcomes(picker.aborted) :
          LET p == [picker EXCEPT !.attempts = Append(@, outcome)]
          IN  picker' =
                IF outcome.settled = "threw"
                THEN IF picker.retryCount >= maxRetries \/ outcome.error = ABORT_ERROR
                     THEN PickerCatch(p, IF outcome.error = ABORT_ERROR THEN "Request Timeout"
                                         ELSE "Network Error")
                     ELSE [p EXCEPT !.pc = "delay"]
                ELSE IF outcome = RESOLVED_NULL
                THEN PickerFinally([p EXCEPT !.address = UNAVAILABLE])
                ELSE IF "address" \in DOMAIN outcome.value
                THEN PickerFinally([p EXCEPT !.address = formatAddress(outcome.value),
                                             !.cache = formatAddress(outcome.value)])
                ELSE PickerCatch(p, "Address Lookup Failed")
    /\ UNCHANGED <<registry, balance, localStorage, form, detail, upload, search>>

\* The retry delay is over: fetchWithRetry(retryCount + 1).
PickerRetry ==
    /\ picker.pc = "delay"
    /\ picker' = [picker EXCEPT !.retryCount = @ + 1, !.pc = "fetch"]
    /\ UNCHANGED <<registry, balance, localStorage, form, detail, upload, search>>

PickerNext ==
    \/ PickerUpdateAddress \/ PickerTimeout \/ PickerReverseGeocode \/ PickerRetry

\* A request settles (the 8 s timer aborts it at the latest) and a delay ends.
SpecPicker ==
    /\ Init /\ [][PickerNext]_vars
    /\ WF_vars(PickerTimeout) /\ WF_vars(PickerReverseGeocode) /\ WF_vars(PickerRetry)

FormattedAddresses ==
    {formatAddress(result) : result \in {r \in GeocodeResults : "address" \in DOMAIN r}}

PickerBounded ==
    /\ Len(picker.attempts) <= 3
    /\ \A i \in 1..Len(picker.attempts) :
          picker.attempts[i] = Threw(ABORT_ERROR) =>
              i = Len(picker.attempts) /\ picker.pc = "done"
    /\ picker.pc = "done" =>
          /\ ~picker.loadingAddress
          /\ picker.address \in FormattedAddresses \cup {UNAVAILABLE, COORDINATES}

(***************************************************************************)
(* C37.  A MapPicker address lookup ends: it calls reverseGeocode at most  *)
(* 3 times, makes no further call after one that threw AbortError, and,    *)
(* once started, reaches its end, where the loading flag is false and the  *)
(* address is a formatted address, the "unavailable" text or the           *)
(* coordinate fallback.                                                    *)
(***************************************************************************)
C37_LookupTerminates ==
    /\ []PickerBounded
    /\ (picker.pc \in {"fetch", "delay"}) ~> (picker.pc = "done")

\* A lookup has ended after three calls that all threw the network error.
C37_Witness ==
    /\ picker.pc = "done" /\ ~picker.loadingAddress
    /\ picker.attempts = <<Threw(NETWORK_ERROR), Threw(NETWORK_ERROR), Threw(NETWORK_ERROR)>>
    /\ picker.address = COORDINATES
    /\ picker.notices = {"Network Error"}

(***************************************************************************)
(* LocationSearch: the debounce effect, performSearch and utils/geocoding's*)
(* searchPlaces.  A query is the sequence of its characters.  search.timer *)
(* is the query the pending 300 ms timer will search, or null;             *)
(* search.requests lists the calls of searchPlaces, each with the state of *)
(* the AbortController made for it and of its 8 s timer;                   *)
(* search.abortController is abortControllerRef.current: the index of a    *)
(* request, or 0 for null.  The component is enabled.                      *)
(***************************************************************************)
\* Calls of performSearch that get past the length check, in one behaviour.
MaxSearches == 2

Queries ==
    { << >>, <<"a", "b">>, <<"a", "b", "c">>, <<"a", "b", "c", "d">>, <<" ", " ", " ">> }

\* What searchPlaces may resolve with.
SearchResults == { << >>, <<[display_name |-> <<"a", "b", "c", "d">>]>> }

NO_LOCATIONS == "No locations found. Try a different search term."
TIMED_OUT == "Search request timed out. Please try again."
SEARCH_FAILED == "Failed to search locations. Please try again."
OFFLINE == "You're offline. Please check your internet connection."

\* controller.abort() on abortControllerRef.current, if there is one.
AbortCurrent(s) ==
    IF s.abortController = 0 THEN s
    ELSE [s EXCEPT !.requests[s.abortController].aborted = TRUE]

\* The catch block of performSearch.
SearchCatch(s, errorMessage) ==
    [s EXCEPT !.error = errorMessage, !.notices = @ \cup {"Search Failed"}]

\* The finally block of performSearch.
SearchFinally(s) == [s EXCEPT !.loading = FALSE, !.abortController = 0]

\* performSearch(searchQuery) up to its await of searchPlaces, or to its end
\* where it does not get there.
performSearch(s, searchQuery, onLine) ==
    IF Len(searchQuery) < 3
    THEN [s EXCEPT !.results = << >>, !.showResults = FALSE, !.error = null]
    ELSE LET s1 == AbortCurrent([s EXCEPT !.error = null, !.loading = TRUE])
             id == Len(s.requests) + 1
         IN  IF ~onLine
             THEN SearchFinally(SearchCatch(s1, OFFLINE))
             ELSE [s1 EXCEPT !.abortController = id,
                             !.requests = Append(@, [query |-> searchQuery,
                                                     aborted |-> FALSE,
                                                     pc |-> "in flight",
                                                     timeout |-> TRUE])]

\* The effect on query, without the clearing of the pending timer.
SearchSetQuery_keep_timer ==
    /\ \E q \in Queries \ {search.query} :
          search' = IF Len(q) < 3
                    THEN [search EXCEPT !.query = q, !.results = << >>,
                                        !.showResults = FALSE, !.error = null]
                    ELSE [search EXCEPT !.query = q, !.timer = q]
    /\ UNCHANGED <<registry, balance, localStorage, form, detail, upload, picker>>

\* onChange, clearSearch: setQuery(q) and the effect on query, which first
\* clears the pending timer.
SearchSetQuery ==
    /\ \E q \in Queries \ {search.query} :
          search' = IF Len(q) < 3
                    THEN [search EXCEPT !.query = q, !.timer = null, !.results = << >>,
                                        !.showResults = FALSE, !.error = null]
                    ELSE [search EXCEPT !.query = q, !.timer = q]
    /\ UNCHANGED <<registry, balance, localStorage, form, detail, upload, picker>>

\* The 300 ms timer fires: performSearch(query) for the query it was set for.
SearchDebounced ==
    /\ search.timer # null
    /\ Len(search.requests) < MaxSearches
    /\ \E onLine \in BOOLEAN :
          search' = performSearch([search EXCEPT !.timer = null], search.timer, onLine)
    /\ UNCHANGED <<registry, balance, localStorage, form, detail, upload, picker>>

\* handleSubmitSearch, with handleResultClick for a result with coordinates:
\* the first result is taken, or a search is started if none is loading.
SearchSubmit ==
    /\ Len(search.requests) < MaxSearches
    /\ \E onLine \in BOOLEAN :
          search' =
            IF Len(search.query) < 3
            THEN [search EXCEPT !.notices = @ \cup {"Search Query Too Short"}]
            ELSE IF Len(search.results) > 0
            THEN LET q == search.results[1].display_name
                 IN  [search EXCEPT !.query = q, !.showResults = FALSE, !.error = null,
                                    !.timer = IF q = search.query THEN @ ELSE q]
            ELSE IF ~search.loading
            THEN performSearch(search, search.query, onLine)
            ELSE search
    /\ UNCHANGED <<registry, balance, localStorage, form, detail, upload, picker>>

\* The 8 s timer of request i fires: it aborts abortControllerRef.current.
SearchTimeout ==
    /\ \E i \in 1..Len(search.requests) :
          /\ search.requests[i].timeout
          /\ search' = AbortCurrent([search EXCEPT !.requests[i].timeout = FALSE])
    /\ UNCHANGED <<registry, balance, localStorage, form, detail, upload, picker>>

\* How searchPlaces settles: a blank query resolves with no result without
\* a request; a request under an aborted signal throws AbortError; otherwise
\* it resolves with results or throws.
SearchOutcomes(request) ==
    IF trim(request.query) = << >> THEN {Resolved(<< >>)}
    ELSE IF request.aborted THEN {Threw(ABORT_ERROR)}
    ELSE {Resolved(results) : results \in SearchResults}
            \cup {Threw(NETWORK_ERROR), Threw("429")}

\* searchPlaces of request i settles and its performSearch runs to its end.
SearchSettles ==
    /\ \E i \in 1..Len(search.requests) :
          /\ search.requests[i].pc = "in flight"
          /\ \E outcome \in SearchOutcomes(search.requests[i]) :
                LET s == [search EXCEPT !.requests[i].pc = "settled"]
                IN  search' =
                      IF outcome.settled = "resolved"
                      THEN SearchFinally(
                              [s EXCEPT !.requests[i].timeout = FALSE,
                                        !.results = outcome.value,
                                        !.showResults = TRUE,
                                        !.error = IF outcome.value = << >>
                                                  THEN NO_LOCATIONS ELSE @])
                      ELSE SearchFinally(
                              SearchCatch(s, IF outcome.error = ABORT_ERROR THEN TIMED_OUT
                                             ELSE IF outcome.error = "429"
                                             THEN "Too many search requests. Please try again in a moment."
                                             ELSE SEARCH_FAILED))
    /\ UNCHANGED <<registry, balance, localStorage, form, detail, upload, picker>>

SearchNext ==
    \/ SearchSetQuery \/ SearchDebounced \/ SearchSubmit \/ SearchTimeout \/ SearchSettles

SpecSearch == Init /\ [][SearchNext]_vars

\* The pending timer is for the current query, which has 3 characters or
\* more, and so has every query searchPlaces was called with.
DebounceState ==
    /\ search.timer # null => search.timer = search.query /\ Len(search.query) >= 3
    /\ \A i \in 1..Len(search.requests) : Len(search.requests[i].query) >= 3

\* A change to a query of fewer than 3 characters clears results, error and
\* the timer and starts no request; a request that starts searches the
\* current query.
DebounceStep ==
    /\ (search'.query # search.query /\ Len(search'.query) < 3) =>
          /\ search'.results = << >> /\ search'.error = null /\ ~search'.showResults
          /\ search'.timer = null
          /\ search'.requests = search.requests
    /\ Len(search'.requests) > Len(search.requests) =>
          /\ search'.requests[Len(search'.requests)].query = search.query
          /\ search'.query = search.query

(***************************************************************************)
(* C38.  LocationSearch searches, after the debounce, only a query of at   *)
(* least 3 characters: every change of the query cancels the pending       *)
(* timer, so the timer is always for the latest query and a burst of       *)
(* changes leads to one search, of the last query; a query of fewer than 3 *)
(* characters never reaches searchPlaces, and the change to it clears      *)
(* results and error.                                                      *)
(***************************************************************************)
C38_DebouncedSearch == []DebounceState /\ [][DebounceStep]_vars

\* The only search made was of "abc" and failed; the query was then cut to
\* "ab", which cleared the error, and nothing is pending.
C38_Witness ==
    /\ search.query = <<"a", "b">>
    /\ Len(search.requests) = 1
    /\ search.requests[1].query = <<"a", "b", "c">>
    /\ search.requests[1].pc = "settled"
    /\ "Search Failed" \in search.notices
    /\ search.error = null /\ search.results = << >> /\ search.timer = null

\* Request i is in flight and a request made after it is in flight too,
\* with its controller in abortControllerRef.current.
Superseded(i) ==
    /\ search.requests[i].pc = "in flight"
    /\ search.abortController > i
    /\ search.requests[search.abortController].pc = "in flight"

(***************************************************************************)
(* C39.  Overlapping searches do not interfere: a performSearch that       *)
(* starts while an earlier request is in flight aborts that request, and   *)
(* when the superseded request completes, the newer request's controller   *)
(* stays in place, the loading flag stays set, and no error and no failure *)
(* notice is set.                                                          *)
(***************************************************************************)
C39_NoInterference ==
    [][ /\ \A i \in 1..Len(search.requests) :
              (search.requests[i].pc = "in flight" /\ Len(search'.requests) > Len(search.requests))
                  => search'.requests[i].aborted
        /\ \A i \in 1..Len(search.requests) :
              (Superseded(i) /\ search'.requests[i].pc = "settled") =>
                  /\ search'.abortController = search.abortController
                  /\ search'.loading = search.loading
                  /\ search'.error = search.error
                  /\ search'.notices = search.notices ]_vars

====
